---- MODULE Spec2Model ----
(***************************************************************************)
(* Model of the workflow orchestration code of ia-dev-tools-project:       *)
(* the two circuit breakers (backend/integrations), the retry helper       *)
(* (backend/utils/retry.py), the KB sync trigger with its lock             *)
(* (backend/api/routes/workflows.py, backend/workflows/kb_sync.py), the    *)
(* workflow service with the snapshot cache and the status endpoint        *)
(* (backend/services), and one Celery job (backend/workflows/tasks).       *)
(*                                                                         *)
(* One set of variables; each component has its own next-state relation    *)
(* and specification, which leaves the other components' variables alone.  *)
(***************************************************************************)
EXTENDS Integers, Sequences, FiniteSets, TLC

VARIABLES
    now,        \* wall clock in seconds (time.time() / datetime.now())
    gh,         \* the GitHub CircuitBreaker object (github_client.py)
    gh_obs,     \* observation of the calls made through gh (history, not program state)
    cl,         \* the Claude CircuitBreaker object (claude_client.py)
    cl_obs,     \* observation of the calls made through cl (history, not program state)
    rt,         \* one run of exponential_backoff_with_jitter: arguments, locals, position
    kb_lock,    \* the Redis key lock:kb_sync: holder token and expiry
    kb_req,     \* the POST /kb-sync requests: position in trigger_kb_sync, locals, response
    kb_db,      \* the workflows table: the row each request created, if any
    kb_cache,   \* the snapshot cache: workflow:state:<id>
    kb_chain,   \* the Celery chain of each workflow: scan_runbooks_dir, extract_and_process_changes
    wf,         \* one row of the workflows table (WorkflowService)
    wf_obs,     \* observation of the status changes of wf (history, not program state)
    step,       \* one row of the workflow_steps table, a step of wf
    step_obs,   \* observation of the status changes of step (history, not program state)
    snap,       \* the snapshot of wf in the cache: workflow:state:<id>
    get,        \* the last GET /{workflow_id}: its response, the row it found, the cache it left
    cli,        \* the callers of update_workflow_data on wf: position and the row as read
    task,       \* one Celery job: its task, position, retries and executions
    run,        \* the composed workflows put on the queue and how far the workers got
    ks,         \* one run of extract_and_process_changes and the jobs it dispatched
    sync,       \* SyncService: the stored file state and the last detect_changes
    pm,         \* one generate_postmortem_sections job calling the Claude client
    gi,         \* the create_github_issue jobs calling the GitHub client
    inc,        \* one create_incident_record job and the incidents table
    vs,         \* the vector store collection and the last embed_document
    nt,         \* the last NotificationService.send: its arguments and outcome
    pt,         \* the POST /postmortem requests, the rows and the chains they made
    live        \* a GitHub CircuitBreaker with its clock read relative to the last failure

breaker_vars == <<gh, gh_obs, cl, cl_obs>>
kb_vars == <<kb_lock, kb_req, kb_db, kb_cache, kb_chain>>
svc_vars == <<wf, wf_obs, step, step_obs, snap, get, cli>>
old_vars == <<now, breaker_vars, rt, kb_vars, svc_vars, task>>
flow_vars == <<run, ks, sync, pm, gi>>
aux_vars == <<inc, vs, nt, pt, live>>
vars == <<now, gh, gh_obs, cl, cl_obs, rt, kb_lock, kb_req, kb_db, kb_cache, kb_chain,
          wf, wf_obs, step, step_obs, snap, get, cli, task, run, ks, sync, pm, gi,
          inc, vs, nt, pt, live>>

(***************************************************************************)
(* Bounds of the model.                                                    *)
(***************************************************************************)
MaxCalls == 9       \* calls made through one breaker
TickStep == 20      \* seconds the clock advances in one step
MaxTime == 160      \* the clock stops here
MaxRetries == 3     \* largest max_retries argument tried
MaxBaseDelay == 2   \* largest base_delay argument tried, in seconds
MaxMaxDelay == 4    \* largest max_delay argument tried, in seconds
MaxRequests == 2    \* POST /kb-sync requests
KbTickStep == 300   \* seconds the clock advances in one step of the KB sync model
KbMaxTime == 900    \* the clock of the KB sync model stops here
MaxUpdates == 2     \* status updates made to one row
MaxClients == 2     \* concurrent callers of update_workflow_data on one workflow
MaxRedeliveries == 1    \* worker losses during one job
MaxExecutions == 6  \* executions of one job the model follows
MaxWorkflows == 2   \* composed workflows on the queue at once
MaxPaths == 3       \* runbook files
MaxSyncPaths == 2   \* runbook files a scan lists
MaxMtime == 2       \* modification times
MaxDetects == 3     \* calls of detect_changes
MaxOtherCalls == 5  \* calls other tasks make through the Claude client before the job
MaxDocs == 2        \* document ids embedded
MaxChunks == 2      \* chunks of the longest text
MaxEmbeds == 4      \* calls of embed_document
MaxChannels == 3    \* channels named in one call of send
MaxSends == 2       \* calls of send
LiveTickStep == 15  \* seconds the clock advances in one step of the unbounded run
MaxLiveFailures == 7  \* failures in a row before the operation has to succeed

(***************************************************************************)
(* Python's None, for last_failure_time (times are >= 0).                  *)
(***************************************************************************)
None == -1

(***************************************************************************)
(* GitHub circuit breaker: backend/integrations/github_client.py           *)
(***************************************************************************)
CircuitState == [CLOSED |-> "closed", OPEN |-> "open", HALF_OPEN |-> "half_open"]

\* GitHubClient.__init__: CircuitBreaker(failure_threshold=5, recovery_timeout=60, success_threshold=2)
gh_failure_threshold == 5
gh_recovery_timeout == 60
gh_success_threshold == 2

\* CircuitBreaker.__init__
GH_init ==
    [failure_count |-> 0, success_count |-> 0,
     last_failure_time |-> None, state |-> CircuitState.CLOSED]

\* A plausible slip of _on_success: the failure count is not reset.
GH_on_success_keeps_failures(b) ==
    IF b.state = CircuitState.HALF_OPEN
    THEN IF b.success_count + 1 >= gh_success_threshold
         THEN [b EXCEPT !.state = CircuitState.CLOSED, !.success_count = 0]
         ELSE [b EXCEPT !.success_count = @ + 1]
    ELSE b

\* A plausible slip: closing the breaker leaves success_count as it is.
GH_on_success_keeps_success_count(b) ==
    LET b1 == [b EXCEPT !.failure_count = 0] IN
    IF b1.state = CircuitState.HALF_OPEN
    THEN LET b2 == [b1 EXCEPT !.success_count = @ + 1] IN
         IF b2.success_count >= gh_success_threshold
         THEN [b2 EXCEPT !.state = CircuitState.CLOSED]
         ELSE b2
    ELSE b1

\* CircuitBreaker._on_success
GH_on_success(b) ==
    LET b1 == [b EXCEPT !.failure_count = 0] IN
    IF b1.state = CircuitState.HALF_OPEN
    THEN LET b2 == [b1 EXCEPT !.success_count = @ + 1] IN
         IF b2.success_count >= gh_success_threshold
         THEN [b2 EXCEPT !.state = CircuitState.CLOSED, !.success_count = 0]
         ELSE b2
    ELSE b1

\* CircuitBreaker._on_failure, at clock reading t
GH_on_failure(b, t) ==
    LET b1 == [b EXCEPT !.failure_count = @ + 1,
                        !.last_failure_time = t,
                        !.success_count = 0] IN
    IF b1.failure_count >= gh_failure_threshold
    THEN [b1 EXCEPT !.state = CircuitState.OPEN]
    ELSE b1

\* A plausible slip: the operands of the subtraction swapped.
GH_should_attempt_reset_swapped(b, t) ==
    IF b.last_failure_time = None
    THEN FALSE
    ELSE (b.last_failure_time - t) >= gh_recovery_timeout

\* CircuitBreaker._should_attempt_reset, at clock reading t
GH_should_attempt_reset(b, t) ==
    IF b.last_failure_time = None
    THEN FALSE
    ELSE (t - b.last_failure_time) >= gh_recovery_timeout

\* CircuitBreaker.call(func) at clock reading t, where func() succeeds iff ok.
\* The result holds the breaker afterwards, whether func was invoked, the state in
\* which it was invoked, and how the call ended.
GH_call(b, t, ok) ==
    IF b.state = CircuitState.OPEN /\ ~GH_should_attempt_reset(b, t)
    THEN [breaker |-> b, invoked |-> FALSE, at |-> b.state, outcome |-> "rejected"]
    ELSE LET b1 == IF b.state = CircuitState.OPEN
                   THEN [b EXCEPT !.state = CircuitState.HALF_OPEN]
                   ELSE b
         IN IF ok
            THEN [breaker |-> GH_on_success(b1), invoked |-> TRUE,
                  at |-> b1.state, outcome |-> "success"]
            ELSE [breaker |-> GH_on_failure(b1, t), invoked |-> TRUE,
                  at |-> b1.state, outcome |-> "failure"]

(***************************************************************************)
(* Claude circuit breaker: backend/integrations/claude_client.py           *)
(***************************************************************************)
\* ClaudeClient.__init__: CircuitBreaker(failure_threshold=5, timeout=60)
cl_failure_threshold == 5
cl_timeout == 60

\* CircuitBreaker.__init__
CL_init == [failures |-> 0, last_failure_time |-> None, state |-> "CLOSED"]

\* CircuitBreaker.call(func) at clock reading t, where func() succeeds iff ok.
CL_call(b, t, ok) ==
    IF b.state = "OPEN"
       /\ ~(b.last_failure_time # None /\ t - b.last_failure_time > cl_timeout)
    THEN [breaker |-> b, invoked |-> FALSE, at |-> b.state, outcome |-> "rejected"]
    ELSE LET b1 == IF b.state = "OPEN" THEN [b EXCEPT !.state = "HALF_OPEN"] ELSE b
         IN IF ok
            THEN [breaker |-> IF b1.state = "HALF_OPEN"
                              THEN [b1 EXCEPT !.state = "CLOSED", !.failures = 0]
                              ELSE b1,
                  invoked |-> TRUE, at |-> b1.state, outcome |-> "success"]
            ELSE LET b2 == [b1 EXCEPT !.failures = @ + 1, !.last_failure_time = t]
                 IN [breaker |-> IF b2.failures >= cl_failure_threshold
                                 THEN [b2 EXCEPT !.state = "OPEN"]
                                 ELSE b2,
                     invoked |-> TRUE, at |-> b1.state, outcome |-> "failure"]

\* What an observer of a breaker records of a call: the breaker and its state
\* before it, the state func ran in, the outcome, the seconds since the last
\* failure, the current run of failed calls, the current run of successful
\* calls made in the half-open state, and the totals.
ObsInit(b0) ==
    [calls |-> 0, pre |-> "none", at |-> "none", outcome |-> "none",
     before |-> b0, elapsed |-> 0,
     consec_failures |-> 0, probe_successes |-> 0, failures |-> 0, successes |-> 0]

Observe(o, b, t, r, half_open) ==
    [calls |-> o.calls + 1,
     pre |-> b.state,
     at |-> r.at,
     outcome |-> r.outcome,
     before |-> b,
     elapsed |-> IF b.last_failure_time = None THEN 0 ELSE t - b.last_failure_time,
     consec_failures |-> IF r.outcome = "failure" THEN o.consec_failures + 1
                         ELSE IF r.outcome = "success" THEN 0 ELSE o.consec_failures,
     probe_successes |-> IF r.outcome = "success"
                         THEN (IF r.at = half_open THEN o.probe_successes + 1 ELSE 0)
                         ELSE IF r.outcome = "failure" THEN 0 ELSE o.probe_successes,
     failures |-> IF r.outcome = "failure" THEN o.failures + 1 ELSE o.failures,
     successes |-> IF r.outcome = "success" THEN o.successes + 1 ELSE o.successes]

(***************************************************************************)
(* Retry helper: backend/utils/retry.py                                    *)
(*                                                                         *)
(* Delays are floats in the code. base_delay and max_delay are whole       *)
(* seconds here and a computed delay is kept in half seconds, so that      *)
(* 0.5 * delay and 1.5 * delay are integers.                               *)
(***************************************************************************)
RECURSIVE Pow2(_)
\* 2 ** n
Pow2(n) == IF n <= 0 THEN 1 ELSE 2 * Pow2(n - 1)

Min(a, b) == IF a <= b THEN a ELSE b

\* A plausible slip of the backoff: the exponent is retry_count, not retry_count - 1.
RT_backoff_late(base_delay, max_delay, retry_count) ==
    Min(base_delay * Pow2(retry_count), max_delay)

\* delay = min(base_delay * (2 ** (retry_count - 1)), max_delay), in seconds
RT_backoff(base_delay, max_delay, retry_count) ==
    Min(base_delay * Pow2(retry_count - 1), max_delay)

\* The values random.uniform(0.5 * delay, 1.5 * delay) can return, in half
\* seconds, for a delay in seconds (the half-second grid of the interval).
RT_uniform(delay) == delay .. 3 * delay

\* The delay the code goes on to use, in half seconds: the backoff itself without
\* jitter, a value of the jitter interval with it.
RT_delays(s) ==
    LET delay == RT_backoff(s.base_delay, s.max_delay, s.retry_count) IN
    IF s.jitter THEN RT_uniform(delay) ELSE {2 * delay}

\* A plausible slip of the except clause: only the first exception is kept.
RT_keep_first_exception(s, e) ==
    IF s.last_exception = None THEN e ELSE s.last_exception

\* last_exception = e
RT_keep_exception(s, e) == e

\* The state of a run on entry, for given arguments.
RT_start(max_retries, base_delay, max_delay, jitter, on_retry) ==
    [max_retries |-> max_retries, base_delay |-> base_delay, max_delay |-> max_delay,
     jitter |-> jitter, on_retry |-> on_retry,
     retry_count |-> 0, last_exception |-> None,
     pc |-> "call",             \* call | sleep | returned | raised
     calls |-> 0,               \* invocations of func so far
     successes |-> 0,           \* invocations of func that returned
     delay |-> 0,               \* the local delay after the jitter, in half seconds
     notified |-> <<>>,         \* arguments of the last on_retry call
     slept |-> 0,               \* half seconds spent in time.sleep so far
     result |-> None,           \* the value returned: the number of the invocation
     raised |-> None]           \* the exception raised: the number of the invocation

RetryInit ==
    \E max_retries \in 0 .. MaxRetries, base_delay \in 1 .. MaxBaseDelay,
       max_delay \in 1 .. MaxMaxDelay, jitter \in BOOLEAN, on_retry \in BOOLEAN :
        rt = RT_start(max_retries, base_delay, max_delay, jitter, on_retry)

\* One pass of the while loop up to time.sleep: func() is invoked and returns
\* ("ok"), raises one of `exceptions` ("retry"), or raises another exception
\* ("other"); d is the value the jitter draws.
RetryAttempt(outcome, d) ==
    /\ rt.pc = "call"
    /\ rt.retry_count <= rt.max_retries
    /\ LET n == rt.calls + 1
           s == [rt EXCEPT !.calls = n] IN
       CASE outcome = "ok" ->
              /\ d = 0
              /\ rt' = [s EXCEPT !.successes = @ + 1, !.result = n, !.pc = "returned"]
         [] outcome = "other" ->
              /\ d = 0
              /\ rt' = [s EXCEPT !.raised = n, !.pc = "raised"]
         [] outcome = "retry" ->
              LET s1 == [s EXCEPT !.last_exception = RT_keep_exception(s, n),
                                  !.retry_count = @ + 1] IN
              IF s1.retry_count > s1.max_retries
              THEN /\ d = 0
                   /\ rt' = [s1 EXCEPT !.raised = s1.last_exception, !.pc = "raised"]
              ELSE /\ d \in RT_delays(s1)
                   /\ rt' = [s1 EXCEPT !.delay = d,
                                       !.notified = IF s1.on_retry
                                                    THEN <<s1.retry_count, d>>
                                                    ELSE @,
                                       !.pc = "sleep"]
    /\ UNCHANGED <<now, breaker_vars, kb_vars, svc_vars, task, flow_vars, aux_vars>>

\* time.sleep(delay) returns and the loop goes round.
RetrySleep ==
    /\ rt.pc = "sleep"
    /\ rt' = [rt EXCEPT !.slept = @ + rt.delay, !.pc = "call"]
    /\ UNCHANGED <<now, breaker_vars, kb_vars, svc_vars, task, flow_vars, aux_vars>>

(***************************************************************************)
(* KB sync trigger: backend/api/routes/workflows.py (trigger_kb_sync),     *)
(* backend/workflows/kb_sync.py, backend/services/workflow_service.py,     *)
(* backend/services/workflow_cache.py                                      *)
(*                                                                         *)
(* trigger_kb_sync calls cache.acquire_lock and cache.release_lock, which  *)
(* WorkflowCache does not define in the source at hand; they are modelled  *)
(* from the lock's specification: atomic set-if-absent with a lease,       *)
(* release by compare-and-delete on the token.                             *)
(***************************************************************************)
Req == 1 .. MaxRequests

\* cache.acquire_lock("kb_sync", timeout_seconds=600, blocking_timeout=0)
kb_lock_timeout_seconds == 600

\* The key lock:kb_sync is absent.
LockAbsent == [token |-> None, expiry |-> 0]

\* The key holds a token whose lease has not expired at time t.
LockHeld(l, t) == l.token # None /\ t < l.expiry

\* acquire_lock with blocking_timeout = 0 at time t: set-if-absent with a lease;
\* the token on success, None at once when the lock is held.
acquire_lock(l, t, token, timeout_seconds) ==
    IF LockHeld(l, t)
    THEN [lock |-> l, token |-> None]
    ELSE [lock |-> [token |-> token, expiry |-> t + timeout_seconds], token |-> token]

\* release_lock(token): compare-and-delete.
release_lock(l, token) ==
    IF token # None /\ l.token = token THEN LockAbsent ELSE l

\* A request before trigger_kb_sync has run for it.
KB_request ==
    [pc |-> "start",        \* start | create | trigger | update | cache | done
     lock |-> None,         \* the local `lock`: the token acquire_lock returned
     response |-> 0,        \* HTTP status returned, 0 while there is none
     issued_at |-> None,    \* clock reading when acquire_lock was called
     answered_at |-> None,  \* clock reading when the response was returned
     saw_held |-> FALSE]    \* whether another holder's lease was unexpired then

\* No row of the workflows table.
KB_no_row == [exists |-> FALSE, status |-> "none", workflow_data |-> {}]

KbInit ==
    /\ kb_lock = LockAbsent
    /\ kb_req = [r \in Req |-> KB_request]
    /\ kb_db = [r \in Req |-> KB_no_row]
    /\ kb_cache = [r \in Req |-> "absent"]
    /\ kb_chain = [r \in Req |-> "none"]

\* A plausible slip of the handler: the result of acquire_lock is not tested.
KB_lock_refused_ignored(lock) == FALSE

\* `if not lock:` after acquire_lock
KB_lock_refused(lock) == lock = None

\* The handler answers request r with an HTTP status.
KB_respond(q, status) ==
    [q EXCEPT !.response = status, !.answered_at = now, !.pc = "done"]

\* trigger_kb_sync, lines 380-393: acquire the lock without blocking; 409 when it
\* is refused. The token of request r is r.
KbAcquire(r) ==
    /\ kb_req[r].pc = "start"
    /\ LET a == acquire_lock(kb_lock, now, r, kb_lock_timeout_seconds)
           q == [kb_req[r] EXCEPT !.lock = a.token, !.issued_at = now,
                                  !.saw_held = LockHeld(kb_lock, now)] IN
       /\ kb_lock' = a.lock
       /\ kb_req' = [kb_req EXCEPT ![r] =
                        IF KB_lock_refused(a.token)
                        THEN KB_respond(q, 409)
                        ELSE [q EXCEPT !.pc = "create"]]
    /\ UNCHANGED <<now, breaker_vars, rt, kb_db, kb_cache, kb_chain, svc_vars, task, flow_vars, aux_vars>>

\* A plausible slip: the except clauses answer without releasing the lock.
KB_fail_keeps_lock(r, status) ==
    /\ kb_lock' = kb_lock
    /\ kb_req' = [kb_req EXCEPT ![r] = KB_respond(@, status)]

\* The except clauses of trigger_kb_sync: release the lock and answer with status.
KB_fail(r, status) ==
    /\ kb_lock' = release_lock(kb_lock, kb_req[r].lock)
    /\ kb_req' = [kb_req EXCEPT ![r] = KB_respond(@, status)]

\* trigger_kb_sync, lines 396-407: workflow_service.create_workflow commits a
\* PENDING row, or the state store raises (db_ok false).
KbCreateWorkflow(r, db_ok) ==
    /\ kb_req[r].pc = "create"
    /\ IF db_ok
       THEN /\ kb_db' = [kb_db EXCEPT ![r] =
                            [exists |-> TRUE, status |-> "PENDING",
                             workflow_data |-> {"runbooks_dir", "workflow_type"}]]
            /\ kb_req' = [kb_req EXCEPT ![r].pc = "trigger"]
            /\ UNCHANGED kb_lock
       ELSE /\ KB_fail(r, 500)
            /\ UNCHANGED kb_db
    /\ UNCHANGED <<now, breaker_vars, rt, kb_cache, kb_chain, svc_vars, task, flow_vars, aux_vars>>

\* trigger_kb_sync, lines 409-410, and trigger_kb_sync_workflow: FileNotFoundError
\* (400) when the directory is absent, else the chain is put on the queue, or the
\* queue raises (queue_ok false).
KbTriggerWorkflow(r, dir_exists, queue_ok) ==
    /\ kb_req[r].pc = "trigger"
    /\ IF ~dir_exists
       THEN /\ KB_fail(r, 400)
            /\ UNCHANGED kb_chain
       ELSE IF ~queue_ok
       THEN /\ KB_fail(r, 500)
            /\ UNCHANGED kb_chain
       ELSE /\ kb_chain' = [kb_chain EXCEPT ![r] = "queued"]
            /\ kb_req' = [kb_req EXCEPT ![r].pc = "update"]
            /\ UNCHANGED kb_lock
    /\ UNCHANGED <<now, breaker_vars, rt, kb_db, kb_cache, svc_vars, task, flow_vars, aux_vars>>

\* trigger_kb_sync, lines 412-420: workflow_service.update_workflow_data merges
\* the chain id and the lock info into workflow_data, or the state store raises.
KbUpdateData(r, db_ok) ==
    /\ kb_req[r].pc = "update"
    /\ IF db_ok
       THEN /\ kb_db' = [kb_db EXCEPT ![r].workflow_data =
                            @ \cup {"celery_chain_id", "has_lock", "lock_acquired_at"}]
            /\ kb_req' = [kb_req EXCEPT ![r].pc = "cache"]
            /\ UNCHANGED kb_lock
       ELSE /\ KB_fail(r, 500)
            /\ UNCHANGED kb_db
    /\ UNCHANGED <<now, breaker_vars, rt, kb_cache, kb_chain, svc_vars, task, flow_vars, aux_vars>>

\* trigger_kb_sync, lines 422-451: the snapshot is written (set_workflow_state
\* swallows cache errors: cache_ok false) and 202 is returned; the lock is kept.
KbAccept(r, cache_ok) ==
    /\ kb_req[r].pc = "cache"
    /\ kb_cache' = IF cache_ok THEN [kb_cache EXCEPT ![r] = "PENDING"] ELSE kb_cache
    /\ kb_req' = [kb_req EXCEPT ![r] = KB_respond(@, 202)]
    /\ UNCHANGED <<now, breaker_vars, rt, kb_lock, kb_db, kb_chain, svc_vars, task, flow_vars, aux_vars>>

\* A worker runs the next task of workflow w's chain: scan_runbooks_dir, then
\* extract_and_process_changes; the task returns (ok) or raises.
KbWorker(w, ok) ==
    /\ kb_chain[w] \in {"queued", "scanned"}
    /\ kb_chain' = [kb_chain EXCEPT ![w] =
                       IF ~ok THEN "failed"
                       ELSE IF @ = "queued" THEN "scanned" ELSE "finished"]
    /\ UNCHANGED <<now, breaker_vars, rt, kb_lock, kb_req, kb_db, kb_cache, svc_vars, task, flow_vars, aux_vars>>

\* The clock advances.
KbTick ==
    /\ now + KbTickStep <= KbMaxTime
    /\ now' = now + KbTickStep
    /\ UNCHANGED <<breaker_vars, rt, kb_vars, svc_vars, task, flow_vars, aux_vars>>

(***************************************************************************)
(* WorkflowService (backend/services/workflow_service.py): one row of the  *)
(* workflows table and one row of the workflow_steps table.                *)
(***************************************************************************)
\* class WorkflowStatus (values as stored)
WorkflowStatus == {"PENDING", "RUNNING", "COMPLETED", "FAILED", "CANCELLED"}

\* class WorkflowStepStatus (values as stored)
WorkflowStepStatus == {"pending", "running", "completed", "failed", "skipped"}

\* No row of the workflows table with the id.
Workflow_no_row ==
    [exists |-> FALSE, status |-> "none", workflow_data |-> {},
     error_message |-> FALSE, updated_at |-> None, completed_at |-> None]

\* WorkflowService.create_workflow: a PENDING row with the given workflow_data.
create_workflow(workflow_data, t) ==
    [exists |-> TRUE, status |-> "PENDING", workflow_data |-> workflow_data,
     error_message |-> FALSE, updated_at |-> t, completed_at |-> None]

\* WorkflowService.update_workflow_status on a row that exists; error_message is
\* whether the caller passed a non-empty message.
update_workflow_status(workflow, status, error_message, t) ==
    [workflow EXCEPT
        !.status = status,
        !.updated_at = t,
        !.completed_at = IF status \in {"COMPLETED", "FAILED"} THEN t ELSE @,
        !.error_message = IF error_message THEN TRUE ELSE @]

\* No row of the workflow_steps table with the id.
Step_no_row ==
    [exists |-> FALSE, status |-> "none", retry_count |-> 0,
     started_at |-> None, completed_at |-> None]

\* WorkflowService.create_workflow_step: a pending row; retry_count defaults to 0.
create_workflow_step ==
    [exists |-> TRUE, status |-> "pending", retry_count |-> 0,
     started_at |-> None, completed_at |-> None]

\* WorkflowService.update_workflow_step_status on a row that exists.
update_workflow_step_status(s, status, t) ==
    [s EXCEPT
        !.status = status,
        !.started_at = IF status = "running" THEN t ELSE @,
        !.completed_at = IF status \in {"completed", "failed", "skipped"} THEN t ELSE @]

\* Observation of the status changes made to a row: pre is the status the row
\* had before its last change of status ("none" while it has not changed).
StatusObsInit == [updates |-> 0, pre |-> "none"]

ObserveStatus(o, before, after) ==
    [updates |-> o.updates + 1,
     pre |-> IF after # before THEN before ELSE o.pre]

\* The callers of update_workflow_data: the workflow_data keys they merge in.
Client == 1 .. MaxClients
DataKey == [c \in Client |-> IF c = 1 THEN "celery_chain_id" ELSE "last_sync_state"]

\* A caller of update_workflow_data that has not started.
DataIdle == [pc |-> "idle", seen |-> {}]

(***************************************************************************)
(* WorkflowCache and GET /{workflow_id} (backend/services/workflow_cache.py*)
(* and get_workflow_status in backend/api/routes/workflows.py).            *)
(***************************************************************************)
\* No key workflow:state:<id>.
WC_absent == [present |-> FALSE, status |-> "none"]

\* A plausible slip: the snapshot is never written.
set_workflow_state_dropped(cache, state, ok) == cache

\* WorkflowCache.set_workflow_state: setex, an error of the cache is swallowed
\* (ok false) and the key is left as it was.
set_workflow_state(cache, state, ok) == IF ok THEN state ELSE cache

\* The steps list of the response: name/status/order/retry_count of each step, None
\* (the empty sequence here) when the workflow has no steps.
GET_steps(s) ==
    IF s.exists THEN <<[status |-> s.status, retry_count |-> s.retry_count]>> ELSE <<>>

GET_response(code, status, steps) == [code |-> code, status |-> status, steps |-> steps]

\* get_workflow_status: a cached snapshot is passed to WorkflowStatusResponse, which
\* requires workflow_id, created_at and updated_at, none of them a key of the
\* snapshot: the validation error is answered with 500. On a miss the row is read:
\* 404 when there is none, else the response is built and the snapshot written.
get_workflow_status(cache, workflow, s, cache_ok) ==
    IF cache.present
    THEN [response |-> GET_response(500, "none", <<>>), cache |-> cache]
    ELSE IF ~workflow.exists
    THEN [response |-> GET_response(404, "none", <<>>), cache |-> cache]
    ELSE [response |-> GET_response(200, workflow.status, GET_steps(s)),
          cache |-> set_workflow_state(
                        cache, [present |-> TRUE, status |-> workflow.status], cache_ok)]

\* No GET has been answered.
GetIdle ==
    [response |-> GET_response(0, "none", <<>>), miss |-> FALSE, cache_ok |-> FALSE,
     found |-> FALSE, status |-> "none", step |-> Step_no_row, cache |-> WC_absent]

(***************************************************************************)
(* One Celery job (backend/workflows/tasks, backend/config/celery_config). *)
(***************************************************************************)
\* max_retries of the tasks that retry
task_max_retries == 3

\* The tasks as declared: max_retries and whether the body calls self.retry.
TaskKinds ==
    {[name |-> "detect_changes", max_retries |-> 0, retries_on_error |-> FALSE],
     [name |-> "regenerate_embeddings", max_retries |-> task_max_retries, retries_on_error |-> TRUE],
     [name |-> "generate_postmortem_sections", max_retries |-> task_max_retries, retries_on_error |-> TRUE]}

\* A job of kind k as apply_async puts it on the queue.
TASK_submitted(k) ==
    [kind |-> k, state |-> "queued",   \* queued | running | succeeded | failed
     retries |-> 0,                    \* self.request.retries
     executions |-> 0,                 \* times the task body was started
     redeliveries |-> 0]               \* times the job was put back after worker loss

\* A plausible slip: self.retry without the max_retries test.
TASK_retry_unbounded(j) ==
    [j EXCEPT !.retries = @ + 1, !.state = "queued"]

\* Task.retry as the bodies call it: the job is sent again with retries + 1
\* unless that exceeds max_retries, when the exception is raised.
TASK_retry(j) ==
    IF j.retries + 1 > j.kind.max_retries
    THEN [j EXCEPT !.state = "failed"]
    ELSE [j EXCEPT !.retries = @ + 1, !.state = "queued"]

\* No job.
TaskIdle ==
    task = [TASK_submitted([name |-> "none", max_retries |-> 0,
                            retries_on_error |-> FALSE]) EXCEPT !.state = "succeeded"]

ServiceInit ==
    /\ wf = Workflow_no_row
    /\ wf_obs = StatusObsInit
    /\ step = Step_no_row
    /\ step_obs = StatusObsInit
    /\ snap = WC_absent
    /\ get = GetIdle
    /\ cli = [c \in Client |-> DataIdle]

\* POST handlers: workflow_service.create_workflow commits the row.
CreateWorkflow ==
    /\ ~wf.exists
    /\ wf' = create_workflow({}, now)
    /\ UNCHANGED <<now, breaker_vars, rt, kb_vars, wf_obs, step, step_obs, snap, get, cli, task, flow_vars, aux_vars>>

\* Some caller sets the workflow's status.
UpdateWorkflowStatus(status, error_message) ==
    /\ wf.exists
    /\ wf_obs.updates < MaxUpdates
    /\ wf' = update_workflow_status(wf, status, error_message, now)
    /\ wf_obs' = ObserveStatus(wf_obs, wf.status, status)
    /\ UNCHANGED <<now, breaker_vars, rt, kb_vars, step, step_obs, snap, get, cli, task, flow_vars, aux_vars>>

\* Some caller creates the step of the workflow.
CreateWorkflowStep ==
    /\ wf.exists
    /\ ~step.exists
    /\ step' = create_workflow_step
    /\ UNCHANGED <<now, breaker_vars, rt, kb_vars, wf, wf_obs, step_obs, snap, get, cli, task, flow_vars, aux_vars>>

\* Some caller sets the step's status.
UpdateWorkflowStepStatus(status) ==
    /\ step.exists
    /\ step_obs.updates < MaxUpdates
    /\ step' = update_workflow_step_status(step, status, now)
    /\ step_obs' = ObserveStatus(step_obs, step.status, status)
    /\ UNCHANGED <<now, breaker_vars, rt, kb_vars, wf, wf_obs, snap, get, cli, task, flow_vars, aux_vars>>

\* update_workflow_data, line 210: caller c reads the row in its own session.
DataRead(c) ==
    /\ wf.exists
    /\ cli[c].pc = "idle"
    /\ cli' = [cli EXCEPT ![c] = [pc |-> "read", seen |-> wf.workflow_data]]
    /\ UNCHANGED <<now, breaker_vars, rt, kb_vars, wf, wf_obs, step, step_obs, snap, get, task, flow_vars, aux_vars>>

\* update_workflow_data, lines 214-217: caller c commits {**workflow_data, **data},
\* computed from the row as it read it, as the new value of the column.
DataWrite(c) ==
    /\ cli[c].pc = "read"
    /\ wf' = [wf EXCEPT !.workflow_data = cli[c].seen \cup {DataKey[c]},
                        !.updated_at = now]
    /\ cli' = [cli EXCEPT ![c].pc = "done"]
    /\ UNCHANGED <<now, breaker_vars, rt, kb_vars, wf_obs, step, step_obs, snap, get, task, flow_vars, aux_vars>>

\* A client GETs the workflow's status.
GetWorkflowStatus(cache_ok) ==
    /\ LET r == get_workflow_status(snap, wf, step, cache_ok) IN
       /\ snap' = r.cache
       /\ get' = [response |-> r.response, miss |-> ~snap.present, cache_ok |-> cache_ok,
                  found |-> wf.exists, status |-> wf.status, step |-> step,
                  cache |-> r.cache]
    /\ UNCHANGED <<now, breaker_vars, rt, kb_vars, wf, wf_obs, step, step_obs, cli, task, flow_vars, aux_vars>>

\* The snapshot key reaches its TTL.
SnapExpire ==
    /\ snap.present
    /\ snap' = WC_absent
    /\ UNCHANGED <<now, breaker_vars, rt, kb_vars, wf, wf_obs, step, step_obs, get, cli, task, flow_vars, aux_vars>>

\* A worker takes the job from the queue and starts the task body.
TaskExecute ==
    /\ task.state = "queued"
    /\ task.executions < MaxExecutions
    /\ task' = [task EXCEPT !.state = "running", !.executions = @ + 1]
    /\ UNCHANGED <<now, breaker_vars, rt, kb_vars, svc_vars, flow_vars, aux_vars>>

\* The task body returns.
TaskReturn ==
    /\ task.state = "running"
    /\ task' = [task EXCEPT !.state = "succeeded"]
    /\ UNCHANGED <<now, breaker_vars, rt, kb_vars, svc_vars, flow_vars, aux_vars>>

\* The task body fails: inside the try whose except calls self.retry (retryable),
\* or with an exception that leaves the body.
TaskRaise(retryable) ==
    /\ task.state = "running"
    /\ task' = IF retryable /\ task.kind.retries_on_error
               THEN TASK_retry(task)
               ELSE [task EXCEPT !.state = "failed"]
    /\ UNCHANGED <<now, breaker_vars, rt, kb_vars, svc_vars, flow_vars, aux_vars>>

\* The worker is lost while the body runs: task_acks_late and
\* task_reject_on_worker_lost put the unacknowledged job back on the queue.
TaskWorkerLost ==
    /\ task.state = "running"
    /\ task.redeliveries < MaxRedeliveries
    /\ task' = [task EXCEPT !.state = "queued", !.redeliveries = @ + 1]
    /\ UNCHANGED <<now, breaker_vars, rt, kb_vars, svc_vars, flow_vars, aux_vars>>

(***************************************************************************)
(* Workflow composition (backend/workflows/incident_response.py,           *)
(* postmortem_publish.py, kb_sync.py) and the execution of a composed      *)
(* canvas by the workers.                                                  *)
(***************************************************************************)
\* The task functions that are composed.
TaskName ==
    {"create_incident_record", "analyze_logs_async", "search_related_runbooks",
     "create_github_issue", "send_notification", "generate_postmortem_sections",
     "render_jinja_template", "embed_in_chromadb", "notify_stakeholders",
     "scan_runbooks_dir", "extract_and_process_changes"}

\* The positional parameters each task function declares after self: how many are
\* required (min) and how many there are (max).
HandlerArity ==
    [n \in TaskName |->
        CASE n = "create_incident_record" -> [min |-> 3, max |-> 4]
          [] n = "analyze_logs_async" -> [min |-> 2, max |-> 2]
          [] n = "search_related_runbooks" -> [min |-> 2, max |-> 3]
          [] n = "create_github_issue" -> [min |-> 3, max |-> 4]
          [] n = "send_notification" -> [min |-> 2, max |-> 3]
          [] n = "generate_postmortem_sections" -> [min |-> 1, max |-> 1]
          [] n = "render_jinja_template" -> [min |-> 2, max |-> 2]
          [] n = "embed_in_chromadb" -> [min |-> 2, max |-> 2]
          [] n = "notify_stakeholders" -> [min |-> 2, max |-> 2]
          [] n = "scan_runbooks_dir" -> [min |-> 1, max |-> 1]
          [] OTHER -> [min |-> 1, max |-> 1]]

\* task.s(*args): a signature with that many static positional arguments, to which
\* the result of the task before it is prepended.
Sig_s(name, nargs) == [task |-> name, args |-> nargs, immutable |-> FALSE]

\* task.si(*args): an immutable signature, which takes no upstream result.
Sig_si(name, nargs) == [task |-> name, args |-> nargs, immutable |-> TRUE]

\* The None that stands in the chain for a step that is left out.
Sig_none == [task |-> "None", args |-> 0, immutable |-> TRUE]

\* [task for task in workflow.tasks if task is not None]
FilterNone(tasks) == SelectSeq(tasks, LAMBDA stage : stage # {Sig_none})

\* create_incident_workflow: the chain as a sequence of stages, each the set of
\* signatures that run side by side (one signature unless the stage is a group).
create_incident_workflow(log_file_path) ==
    FilterNone(<<{Sig_si("create_incident_record", 4)},
                 IF log_file_path THEN {Sig_s("analyze_logs_async", 1)} ELSE {Sig_none},
                 {Sig_s("search_related_runbooks", 1)}>>)

\* create_postmortem_workflow
create_postmortem_workflow ==
    <<{Sig_s("generate_postmortem_sections", 1)},
      {Sig_s("render_jinja_template", 1)},
      {Sig_s("create_github_issue", 3), Sig_s("embed_in_chromadb", 2)}>>

\* create_kb_sync_workflow
create_kb_sync_workflow ==
    <<{Sig_s("scan_runbooks_dir", 1)}, {Sig_s("extract_and_process_changes", 0)}>>

\* The positional arguments a signature's task is called with at stage i of a chain.
Received(sig, i) == sig.args + (IF i > 1 /\ ~sig.immutable THEN 1 ELSE 0)

\* Whether the task function can be called with n positional arguments.
Accepts(name, n) == HandlerArity[name].min <= n /\ n <= HandlerArity[name].max

Wf == 1 .. MaxWorkflows

\* No canvas has been composed.
RUN_idle ==
    [kind |-> "none", chain |-> <<>>, stage |-> 1, done |-> {}, state |-> "idle",
     started |-> <<>>,          \* the tasks whose body ran, in the order they started
     raised |-> FALSE,          \* a task body raised
     type_error |-> FALSE,      \* a task was called with arguments it does not accept
     stage_failed |-> FALSE]    \* a task of the current stage did not succeed

\* apply_async of a composed canvas.
RUN_applied(kind, chain) ==
    [RUN_idle EXCEPT !.kind = kind, !.chain = chain, !.state = "running"]

\* The run after every task of the current stage has been tried.
RUN_stage_over(q) ==
    IF q.done # {s.task : s \in q.chain[q.stage]} THEN q
    ELSE IF q.stage_failed THEN [q EXCEPT !.state = "failed"]
    ELSE IF q.stage = Len(q.chain) THEN [q EXCEPT !.state = "finished"]
    ELSE [q EXCEPT !.stage = @ + 1, !.done = {}]

RunInit == run = [w \in Wf |-> RUN_idle]

\* A trigger composes the incident workflow, with or without a log file path, and
\* puts it on the queue.
ComposeIncident(w, log_file_path) ==
    /\ run[w].state = "idle"
    /\ run' = [run EXCEPT ![w] =
                  RUN_applied("incident", create_incident_workflow(log_file_path))]
    /\ UNCHANGED <<old_vars, ks, sync, pm, gi, aux_vars>>

ComposePostmortem(w) ==
    /\ run[w].state = "idle"
    /\ run' = [run EXCEPT ![w] = RUN_applied("postmortem", create_postmortem_workflow)]
    /\ UNCHANGED <<old_vars, ks, sync, pm, gi, aux_vars>>

ComposeKbSync(w) ==
    /\ run[w].state = "idle"
    /\ run' = [run EXCEPT ![w] = RUN_applied("kb_sync", create_kb_sync_workflow)]
    /\ UNCHANGED <<old_vars, ks, sync, pm, gi, aux_vars>>

\* A worker calls the task of signature sig, of the current stage of run w, with the
\* upstream result and the static arguments: a TypeError when the function does not
\* take that many, else the body runs and returns (ok) or fails for good.
RunTask(w, sig, ok) ==
    /\ run[w].state = "running"
    /\ sig \in run[w].chain[run[w].stage]
    /\ sig.task \notin run[w].done
    /\ LET q == run[w]
           fits == Accepts(sig.task, Received(sig, q.stage))
           tried == [q EXCEPT !.done = @ \cup {sig.task},
                              !.started = IF fits THEN Append(@, sig.task) ELSE @,
                              !.type_error = @ \/ ~fits,
                              !.raised = @ \/ (fits /\ ~ok),
                              !.stage_failed = @ \/ ~fits \/ ~ok] IN
       run' = [run EXCEPT ![w] = RUN_stage_over(tried)]
    /\ UNCHANGED <<old_vars, ks, sync, pm, gi, aux_vars>>

(***************************************************************************)
(* extract_and_process_changes and prepare_chromadb_update                 *)
(* (backend/workflows/kb_sync.py): what they dispatch for a change set.    *)
(***************************************************************************)
\* The runbook files.
Path == 1 .. MaxPaths

\* f"runbook:{file_path}"
CacheKey(p) == <<"runbook", p>>

\* The change sets detect_changes can return: added, modified and deleted paths.
ChangeSet ==
    {c \in [added : SUBSET Path, modified : SUBSET Path, deleted : SUBSET Path] :
        /\ c.added \cap c.modified = {}
        /\ c.added \cap c.deleted = {}
        /\ c.modified \cap c.deleted = {}}

\* changed_files = added + modified
KS_changed_files(c) == c.added \cup c.modified

\* A plausible slip: no early return for an empty change set.
KS_status_no_early_return(changed_files, deleted_files) ==
    IF changed_files # {} THEN "processing" ELSE "completed"

\* The branch extract_and_process_changes takes, named by the status it returns.
KS_status(changed_files, deleted_files) ==
    IF changed_files = {} /\ deleted_files = {} THEN "no_changes"
    ELSE IF changed_files # {} THEN "processing"
    ELSE "completed"

\* A plausible slip: the callback starts as soon as one embedding job is done.
KS_chord_ready_on_first(jobs) ==
    \E p \in DOMAIN jobs : jobs[p] = "ok"

\* chord(embedding_tasks, callback_chain): the callback starts once every job of the
\* group has succeeded.
KS_chord_ready(jobs) ==
    \A p \in DOMAIN jobs : jobs[p] = "ok"

\* A plausible slip: the keys of the changed paths only.
KS_cache_keys_changed_only(changed_files, deleted_files) ==
    {CacheKey(p) : p \in changed_files}

\* cache_keys of prepare_chromadb_update (changed_files + deleted_files) and of the
\* deletions branch (no changed files).
KS_cache_keys(changed_files, deleted_files) ==
    {CacheKey(p) : p \in changed_files \cup deleted_files}

\* No job.
KS_no_job == [state |-> "none", embeddings |-> {}, deleted |-> {}, keys |-> {},
              in_order |-> FALSE]

\* extract_and_process_changes has not been called.
KS_idle ==
    [pc |-> "idle",             \* idle | detect | embed | prepare | delete | end
     changes |-> [added |-> {}, modified |-> {}, deleted |-> {}],
     status |-> "none",         \* the status of the result returned, "raised"
     jobs |-> <<>>,             \* the regenerate_embeddings jobs: path -> queued | ok | failed
     dispatched |-> [p \in Path |-> 0],     \* regenerate_embeddings jobs sent per path
     update |-> KS_no_job,      \* the update_chromadb job and its arguments
     invalidate |-> KS_no_job]  \* the invalidate_cache job and its argument

KsIdle == ks = KS_idle

\* Lines 47-53: the task is called with the scan result, sends detect_changes and
\* waits for its result.
KsCall ==
    /\ ks.pc = "idle"
    /\ ks' = [ks EXCEPT !.pc = "detect"]
    /\ UNCHANGED <<old_vars, run, sync, pm, gi, aux_vars>>

\* Lines 53-113: detect_changes returns the change set c. Nothing changed: the task
\* returns. Files changed: the chord is sent and the task returns. Deletions only:
\* update_chromadb is sent and the task waits for it.
KsDetected(c) ==
    /\ ks.pc = "detect"
    /\ LET changed_files == KS_changed_files(c)
           branch == KS_status(changed_files, c.deleted) IN
       ks' = CASE branch = "no_changes" ->
                    [ks EXCEPT !.pc = "end", !.changes = c, !.status = "no_changes"]
               [] branch = "processing" ->
                    [ks EXCEPT !.pc = "embed", !.changes = c, !.status = "processing",
                               !.jobs = [p \in changed_files |-> "queued"],
                               !.dispatched = [p \in Path |->
                                                 IF p \in changed_files THEN 1 ELSE 0]]
               [] OTHER ->
                    [ks EXCEPT !.pc = "delete", !.changes = c,
                               !.update = [KS_no_job EXCEPT !.state = "queued",
                                                            !.deleted = c.deleted,
                                                            !.in_order = TRUE]]
    /\ UNCHANGED <<old_vars, run, sync, pm, gi, aux_vars>>

\* detect_changes raises: changes_result.get() raises in the task.
KsDetectFailed ==
    /\ ks.pc = "detect"
    /\ ks' = [ks EXCEPT !.pc = "end", !.status = "raised"]
    /\ UNCHANGED <<old_vars, run, sync, pm, gi, aux_vars>>

\* A regenerate_embeddings job of the group ends: embedded (ok) or failed for good.
KsEmbed(p, ok) ==
    /\ ks.pc = "embed"
    /\ p \in DOMAIN ks.jobs
    /\ ks.jobs[p] = "queued"
    /\ ks' = [ks EXCEPT !.jobs[p] = IF ok THEN "ok" ELSE "failed"]
    /\ UNCHANGED <<old_vars, run, sync, pm, gi, aux_vars>>

\* The chord's callback starts: prepare_chromadb_update(embeddings, deleted_files,
\* changed_files) sends update_chromadb and waits for it (lines 137-144).
KsPrepare ==
    /\ ks.pc = "embed"
    /\ KS_chord_ready(ks.jobs)
    /\ ks' = [ks EXCEPT
                !.pc = "prepare",
                !.update = [KS_no_job EXCEPT
                               !.state = "queued",
                               !.embeddings = {p \in DOMAIN ks.jobs : ks.jobs[p] = "ok"},
                               !.deleted = ks.changes.deleted,
                               !.in_order = \A p \in DOMAIN ks.jobs : ks.jobs[p] = "ok"]]
    /\ UNCHANGED <<old_vars, run, sync, pm, gi, aux_vars>>

\* The update_chromadb job ends: it returns (ok) or fails for good.
KsUpdate(ok) ==
    /\ ks.update.state = "queued"
    /\ ks' = [ks EXCEPT !.update.state = IF ok THEN "returned" ELSE "failed"]
    /\ UNCHANGED <<old_vars, run, sync, pm, gi, aux_vars>>

\* A plausible slip: the task goes on without update_result.get().
KS_update_not_awaited(state) == TRUE

\* update_result.get() returns or raises once the update_chromadb job is over.
KS_update_awaited(state) == state \in {"returned", "failed"}

\* update_result.get() is over in the task that waits for it. After a failure the
\* task raises. Else prepare_chromadb_update returns the cache keys and the chain
\* sends invalidate_cache with them (lines 151-156, 83); the deletions branch sends
\* invalidate_cache itself and returns "completed" (lines 104-113).
KsUpdateAwaited ==
    /\ ks.pc \in {"prepare", "delete"}
    /\ KS_update_awaited(ks.update.state)
    /\ LET changed_files == IF ks.pc = "prepare" THEN KS_changed_files(ks.changes) ELSE {} IN
       ks' = IF ks.update.state = "failed"
             THEN [ks EXCEPT !.pc = "end",
                             !.status = IF ks.pc = "delete" THEN "raised" ELSE @]
             ELSE [ks EXCEPT
                     !.pc = "end",
                     !.status = IF ks.pc = "delete" THEN "completed" ELSE @,
                     !.invalidate =
                         [KS_no_job EXCEPT
                             !.state = "queued",
                             !.keys = KS_cache_keys(changed_files, ks.changes.deleted),
                             !.in_order = ks.update.state = "returned"]]
    /\ UNCHANGED <<old_vars, run, sync, pm, gi, aux_vars>>

\* The invalidate_cache job ends.
KsInvalidate(ok) ==
    /\ ks.invalidate.state = "queued"
    /\ ks' = [ks EXCEPT !.invalidate.state = IF ok THEN "returned" ELSE "failed"]
    /\ UNCHANGED <<old_vars, run, sync, pm, gi, aux_vars>>

(***************************************************************************)
(* SyncService (backend/services/sync_service.py): the file state kept     *)
(* between two runs of detect_changes, in a state file or in the newest    *)
(* KB sync workflow row.                                                   *)
(***************************************************************************)
\* The runbook files a scan can list and their modification times; 0: no such file.
SyncPath == 1 .. MaxSyncPaths
FileState == [SyncPath -> 0 .. MaxMtime]

\* {}
SYNC_empty == [p \in SyncPath |-> 0]

\* The paths of a state.
SYNC_paths(state) == {p \in SyncPath : state[p] # 0}

\* WorkflowType.KB_SYNC, the type of the rows the trigger creates
\* (models/workflow.py line 19, routes/workflows.py line 401).
WorkflowType_KB_SYNC == "KB_SYNC"

\* The value the queries of SyncService compare Workflow.type with.
SYNC_type_filter == "kb_sync"

\* db.query(Workflow).filter(Workflow.type == "kb_sync")
\*   .order_by(Workflow.created_at.desc()).first(): the index of the row, 0 for None.
SYNC_newest_workflow(rows) ==
    LET matching == {i \in 1 .. Len(rows) : rows[i].type = SYNC_type_filter} IN
    IF matching = {} THEN 0 ELSE CHOOSE i \in matching : \A j \in matching : j <= i

\* _load_previous_state
SYNC_load_previous_state(s) ==
    IF s.use_database
    THEN LET i == SYNC_newest_workflow(s.rows) IN
         IF i # 0 /\ s.rows[i].has_state THEN s.rows[i].last_sync_state ELSE SYNC_empty
    ELSE IF s.file.exists THEN s.file.state ELSE SYNC_empty

\* _save_current_state
SYNC_save_current_state(s, state) ==
    IF s.use_database
    THEN LET i == SYNC_newest_workflow(s.rows) IN
         IF i # 0
         THEN [s EXCEPT !.rows[i] = [@ EXCEPT !.has_state = TRUE, !.last_sync_state = state]]
         ELSE s
    ELSE [s EXCEPT !.file = [exists |-> TRUE, state |-> state]]

\* The result of detect_changes for the current files against previous_state.
SYNC_changes(previous_state, current_state) ==
    LET added == {p \in SyncPath : current_state[p] # 0 /\ previous_state[p] = 0}
        modified == {p \in SyncPath : /\ current_state[p] # 0
                                      /\ previous_state[p] # 0
                                      /\ previous_state[p] # current_state[p]}
        unchanged == {p \in SyncPath : /\ current_state[p] # 0
                                       /\ previous_state[p] = current_state[p]}
        deleted == {p \in SyncPath : previous_state[p] # 0 /\ current_state[p] = 0}
    IN [added |-> added, modified |-> modified, unchanged |-> unchanged,
        deleted |-> deleted,
        total_changes |-> Cardinality(added) + Cardinality(modified) + Cardinality(deleted)]

\* No SyncService yet.
SYNC_idle ==
    [made |-> FALSE,
     use_database |-> FALSE,
     file |-> [exists |-> FALSE, state |-> SYNC_empty],
     rows |-> <<>>,             \* the workflows table, oldest row first
     calls |-> 0,               \* calls of detect_changes
     previous |-> SYNC_empty,   \* the previous state the last call loaded
     current |-> SYNC_empty,    \* the files of the last call
     result |-> SYNC_changes(SYNC_empty, SYNC_empty),
     repeated |-> FALSE,        \* the last call got the files of the call before it
     kept |-> TRUE]             \* the last call left the stored state as it was

SyncIdle == sync = SYNC_idle

\* SyncService(state_file): the state is kept in the database unless a state file
\* is named.
SyncServiceInit(use_database) ==
    /\ ~sync.made
    /\ sync' = [sync EXCEPT !.made = TRUE, !.use_database = use_database]
    /\ UNCHANGED <<old_vars, run, ks, pm, gi, aux_vars>>

\* trigger_kb_sync creates the workflow row of a KB sync run.
SyncCreateWorkflow ==
    /\ sync.made
    /\ Len(sync.rows) < MaxWorkflows
    /\ sync' = [sync EXCEPT !.rows = Append(@, [type |-> WorkflowType_KB_SYNC,
                                                 has_state |-> FALSE,
                                                 last_sync_state |-> SYNC_empty])]
    /\ UNCHANGED <<old_vars, run, ks, pm, gi, aux_vars>>

\* detect_changes(current_files)
SyncDetectChanges(current_state) ==
    /\ sync.made
    /\ sync.calls < MaxDetects
    /\ LET previous_state == SYNC_load_previous_state(sync)
           saved == SYNC_save_current_state(sync, current_state) IN
       sync' = [saved EXCEPT
                  !.calls = @ + 1,
                  !.previous = previous_state,
                  !.current = current_state,
                  !.result = SYNC_changes(previous_state, current_state),
                  !.repeated = sync.calls > 0 /\ current_state = sync.current,
                  !.kept = SYNC_load_previous_state(saved) = previous_state]
    /\ UNCHANGED <<old_vars, run, ks, pm, gi, aux_vars>>

(***************************************************************************)
(* generate_postmortem_sections (backend/workflows/tasks/postmortem_tasks  *)
(* .py): one job of the task, calling the LLM through the breaker of the   *)
(* module-wide claude_client.                                              *)
(***************************************************************************)
\* @app.task(bind=True, max_retries=3, name="postmortem.generate_sections")
pm_max_retries == 3

\* A plausible slip: a constant countdown.
PM_countdown_constant(retries) == 1

\* countdown=2 ** self.request.retries
PM_countdown(retries) == 2 ^ retries

\* No job of the task.
PM_idle ==
    [pc |-> "idle",         \* idle | queued | done | failed
     k |-> 0,               \* calls the LLM fails before it answers
     left |-> 0,            \* of those, the ones still to come
     retries |-> 0,         \* self.request.retries
     invocations |-> 0,     \* runs of the task body
     rejected |-> 0,        \* runs whose call the breaker refused
     due |-> 0,             \* when the next run is scheduled
     delays |-> <<>>]       \* the countdown of each retry

PmIdle == pm = PM_idle

(***************************************************************************)
(* create_github_issue (backend/workflows/tasks/incident_tasks.py) and     *)
(* GitHubClient.create_issue (backend/integrations/github_client.py).      *)
(***************************************************************************)
\* @app.task(bind=True, max_retries=3, default_retry_delay=4, ...)
gi_max_retries == 3

\* The keys of the dict create_issue returns when the integration is disabled and
\* when the issue was created.
GI_skipped_keys == {"skipped", "reason"}
GI_created_keys == {"html_url", "number", "state", "skipped"}

\* The keys create_github_issue reads from issue_data.
GI_keys_read == {"html_url", "number"}

\* A plausible slip: one client for the module, as claude_client is, whose breaker
\* lives on from one execution to the next.
GI_client_breaker_shared(b) == b

\* github_client = GitHubClient(): __init__ makes a new CircuitBreaker, whatever
\* breaker b the client of the execution before ended with.
GI_client_breaker(b) == GH_init

\* GitHubClient.create_issue on a client whose breaker is b; the API call succeeds
\* iff api_ok. A disabled client has no breaker and makes no call.
GI_create_issue(b, enabled, repo, t, api_ok) ==
    IF ~enabled
    THEN [raised |-> "none", keys |-> GI_skipped_keys, api_calls |-> 0,
          rejected |-> FALSE, breaker |-> b]
    ELSE IF ~repo
    THEN [raised |-> "GitHubAPIError", keys |-> {}, api_calls |-> 0,
          rejected |-> FALSE, breaker |-> b]
    ELSE LET r == GH_call(b, t, api_ok) IN
         IF r.outcome = "success"
         THEN [raised |-> "none", keys |-> GI_created_keys, api_calls |-> 1,
               rejected |-> FALSE, breaker |-> r.breaker]
         ELSE [raised |-> "GitHubAPIError", keys |-> {},
               api_calls |-> IF r.invoked THEN 1 ELSE 0,
               rejected |-> ~r.invoked, breaker |-> r.breaker]

\* One run of the body of create_github_issue: what it returns or raises.
GI_body(b, enabled, repo, t, api_ok) ==
    LET issue_data == GI_create_issue(GI_client_breaker(b), enabled, repo, t, api_ok)
        out == [raised |-> issue_data.raised, result |-> "none",
                api_calls |-> issue_data.api_calls, rejected |-> issue_data.rejected,
                breaker |-> issue_data.breaker] IN
    IF issue_data.raised # "none"
    THEN out
    ELSE IF GI_keys_read \subseteq issue_data.keys
    THEN [out EXCEPT !.result = "issue"]
    ELSE [out EXCEPT !.raised = "KeyError"]

\* No job of the task.
GI_idle ==
    [pc |-> "idle",         \* idle | queued | done | failed
     enabled |-> FALSE,     \* GITHUB_ENABLED
     repo |-> FALSE,        \* GITHUB_REPO is set
     retries |-> 0,         \* self.request.retries
     invocations |-> 0,     \* runs of the task body
     api_calls |-> 0,       \* requests sent to the GitHub API
     rejected |-> 0,        \* runs whose call the client's breaker refused
     result |-> "none",     \* what the task returned
     raised |-> "none"]     \* what the last run raised

GiIdle == gi = [w \in Wf |-> GI_idle]

\* A create_github_issue job is put on the queue, in a process configured with
\* GITHUB_ENABLED and GITHUB_REPO.
GiSubmit(w, enabled, repo) ==
    /\ gi[w].pc = "idle"
    /\ gi' = [gi EXCEPT ![w] = [GI_idle EXCEPT !.pc = "queued", !.enabled = enabled,
                                               !.repo = repo]]
    /\ UNCHANGED <<old_vars, run, ks, sync, pm, aux_vars>>

\* A worker runs the task body; both except clauses call self.retry, which puts
\* the job back or, with the retries used up, fails the task. gh is the breaker
\* of the client the execution worked with.
GiRun(w, api_ok) ==
    /\ gi[w].pc = "queued"
    /\ LET j == gi[w]
           r == GI_body(gh, j.enabled, j.repo, now, api_ok)
           q == [j EXCEPT !.invocations = @ + 1,
                          !.api_calls = @ + r.api_calls,
                          !.rejected = IF r.rejected THEN @ + 1 ELSE @,
                          !.raised = r.raised] IN
       /\ gh' = r.breaker
       /\ gi' = [gi EXCEPT ![w] =
                   IF r.raised = "none"
                   THEN [q EXCEPT !.pc = "done", !.result = r.result]
                   ELSE IF j.retries < gi_max_retries
                   THEN [q EXCEPT !.retries = @ + 1]
                   ELSE [q EXCEPT !.pc = "failed"]]
    /\ UNCHANGED <<now, gh_obs, cl, cl_obs, rt, kb_vars, svc_vars, task,
                   run, ks, sync, pm, aux_vars>>


\* Nothing is composed, dispatched or running.
FlowIdle == RunInit /\ KsIdle /\ SyncIdle /\ PmIdle /\ GiIdle

(***************************************************************************)
(* create_incident_record (backend/workflows/tasks/incident_tasks.py): the *)
(* jobs of the task under late acknowledgement.                            *)
(***************************************************************************)
\* No job of the task; the incidents table has no row of it.
INC_idle ==
    [pc |-> "idle",         \* idle | queued | running | committed | done | failed
     deliveries |-> 0,      \* times the job was handed to a worker
     lost |-> 0,            \* workers lost while they ran the job
     rows |-> 0,            \* rows of the incidents table the job's runs committed
     incident_id |-> 0]     \* the row the result names, 0 while there is none

IncIdle == inc = [w \in Wf |-> INC_idle]

\* db.add(incident); db.commit(): a new row with a new id (lines 61-70).
INC_commit(j) ==
    [j EXCEPT !.rows = @ + 1, !.pc = "committed"]

\* The job is put on the queue (the first task of the incident chain).
IncSubmit(w) ==
    /\ inc[w].pc = "idle"
    /\ inc' = [inc EXCEPT ![w].pc = "queued"]
    /\ UNCHANGED <<old_vars, flow_vars, vs, nt, pt, live>>

\* A worker takes the job; with task_acks_late it is acknowledged only after the
\* body has returned or raised.
IncDeliver(w) ==
    /\ inc[w].pc = "queued"
    /\ inc' = [inc EXCEPT ![w].pc = "running", ![w].deliveries = @ + 1]
    /\ UNCHANGED <<old_vars, flow_vars, vs, nt, pt, live>>

\* The body runs up to db.commit(): the row is committed, or the database raises
\* and the except clause rolls back and re-raises (max_retries = 0: the task fails).
IncCommit(w, db_ok) ==
    /\ inc[w].pc = "running"
    /\ inc' = [inc EXCEPT ![w] = IF db_ok THEN INC_commit(@)
                                ELSE [@ EXCEPT !.pc = "failed"]]
    /\ UNCHANGED <<old_vars, flow_vars, vs, nt, pt, live>>

\* The body returns the result and the job is acknowledged.
IncReturn(w) ==
    /\ inc[w].pc = "committed"
    /\ inc' = [inc EXCEPT ![w].pc = "done", ![w].incident_id = inc[w].rows]
    /\ UNCHANGED <<old_vars, flow_vars, vs, nt, pt, live>>

\* The worker is lost while it runs the job, before or after the commit; with
\* task_reject_on_worker_lost the job goes back on the queue.
IncWorkerLost(w) ==
    /\ inc[w].pc \in {"running", "committed"}
    /\ inc[w].lost < MaxRedeliveries
    /\ inc' = [inc EXCEPT ![w].pc = "queued", ![w].lost = @ + 1]
    /\ UNCHANGED <<old_vars, flow_vars, vs, nt, pt, live>>

(***************************************************************************)
(* EmbeddingService.embed_document (backend/services/embedding_service.py) *)
(* and the collection it writes to.                                        *)
(***************************************************************************)
\* Document ids and texts; a text is given by the chunks _chunk_document makes of it.
DocId == 1 .. MaxDocs
Text == 1 .. MaxChunks

\* _chunk_document(document): the chunks of a text, by index.
VS_chunk_document(text) == 1 .. text

\* The entries of the collection that belong to a document, without their ids:
\* what a query of the store returns for it.
VS_content(entries, doc) ==
    LET of_doc == {e \in entries : e.incident_id = doc} IN
    [c \in {<<e.text, e.chunk_index>> : e \in of_doc} |->
        Cardinality({e \in of_doc : e.text = c[1] /\ e.chunk_index = c[2]})]

\* _check_existing_document(incident_id)
VS_check_existing_document(entries, doc) ==
    \E e \in entries : e.incident_id = doc

\* collection.upsert(ids, documents, metadatas): an entry per id; an entry with the
\* same id is replaced.
VS_upsert(entries, new) ==
    {e \in entries : \A n \in new : n.id # e.id} \cup new

\* embed_document(incident_id, document): the ids are new uuids, next_id onwards.
VS_embed_document(entries, next_id, doc, text) ==
    LET chunks == VS_chunk_document(text)
        new == {[id |-> next_id + i - 1, incident_id |-> doc, text |-> text,
                 chunk_index |-> i] : i \in chunks} IN
    [entries |-> VS_upsert(entries, new),
     next_id |-> next_id + Cardinality(chunks),
     operation |-> IF VS_check_existing_document(entries, doc)
                   THEN "updated" ELSE "created"]

\* An empty collection; no call yet.
VS_idle ==
    [entries |-> {},
     next_id |-> 1,
     calls |-> 0,
     doc |-> 0, text |-> 0,             \* the arguments of the last call
     operation |-> "none",              \* the operation it reported
     repeated |-> FALSE,               \* it repeated the (doc, text) last embedded for doc
     before |-> <<>>,                   \* the content of doc before it
     last_text |-> [d \in DocId |-> 0]] \* the text last embedded for each document

VsIdle == vs = VS_idle

\* embed_document(doc, text)
VsEmbedDocument(doc, text) ==
    /\ vs.calls < MaxEmbeds
    /\ LET r == VS_embed_document(vs.entries, vs.next_id, doc, text) IN
       vs' = [vs EXCEPT !.entries = r.entries,
                        !.next_id = r.next_id,
                        !.calls = @ + 1,
                        !.doc = doc, !.text = text,
                        !.operation = r.operation,
                        !.repeated = vs.last_text[doc] = text,
                        !.before = VS_content(vs.entries, doc),
                        !.last_text[doc] = text]
    /\ UNCHANGED <<old_vars, flow_vars, inc, nt, pt, live>>

(***************************************************************************)
(* NotificationService.send (backend/services/notification_service.py)     *)
(***************************************************************************)
\* The channel names a caller can pass.
Channel == {"webhook", "email", "slack", "pager"}

\* The channel lists tried: up to MaxChannels names.
ChannelList == UNION {[1 .. n -> Channel] : n \in 0 .. MaxChannels}

\* The positions of channels whose delivery worked: a webhook at position i is
\* delivered iff i is in delivered.
NT_sent_to(channels, delivered) ==
    {i \in 1 .. Len(channels) : channels[i] = "webhook" /\ i \in delivered}

\* The positions appended to failed: a webhook whose POST failed, and every
\* email, slack or unknown channel.
NT_failed(channels, delivered) ==
    {i \in 1 .. Len(channels) : ~(channels[i] = "webhook" /\ i \in delivered)}

\* send(message, channels)
NT_send(channels, delivered) ==
    LET sent_to == NT_sent_to(channels, delivered)
        failed == NT_failed(channels, delivered)
        status == IF Cardinality(sent_to) = Len(channels) THEN "success"
                  ELSE IF Cardinality(sent_to) > 0 THEN "partial"
                  ELSE "failed" IN
    [status |-> status, sent_to |-> sent_to, failed |-> failed,
     raised |-> IF status = "failed" THEN "NotificationError" ELSE "none"]

\* No call of send yet.
NT_idle ==
    [calls |-> 0,
     channels |-> <<>>,                 \* the channels argument of the last call
     delivered |-> {},                  \* the positions whose delivery worked
     out |-> [status |-> "none", sent_to |-> {}, failed |-> {}, raised |-> "none"]]

NtIdle == nt = NT_idle

\* send(message, channels)
NtSend(channels, delivered) ==
    /\ nt.calls < MaxSends
    /\ nt' = [nt EXCEPT !.calls = @ + 1,
                        !.channels = channels,
                        !.delivered = delivered,
                        !.out = NT_send(channels, delivered)]
    /\ UNCHANGED <<old_vars, flow_vars, inc, vs, pt, live>>

(***************************************************************************)
(* POST /postmortem/{incident_id}: trigger_postmortem                      *)
(* (backend/api/routes/workflows.py) and trigger_postmortem_workflow       *)
(* (backend/workflows/postmortem_publish.py).                              *)
(***************************************************************************)
\* What the incident_id of a request refers to.
IncidentState == {"malformed", "absent", "open", "resolved"}

\* A request before the handler has run for it.
PT_request ==
    [pc |-> "start",        \* start | trigger | update | done
     incident |-> "none",   \* what its incident_id refers to
     response |-> 0,        \* HTTP status returned, 0 while there is none
     row |-> FALSE,         \* the handler created a workflow record
     chain |-> "none"]      \* the chain: none | queued | failed | generated

PtIdle == pt = [r \in Req |-> PT_request]

\* The handler answers with an HTTP status.
PT_respond(q, status) == [q EXCEPT !.response = status, !.pc = "done"]

\* trigger_postmortem, lines 271-286: uuid.UUID(incident_id) raises ValueError for
\* a malformed id (400); else create_workflow commits a PENDING row, or the state
\* store raises (500).
PtCreateWorkflow(r, incident, db_ok) ==
    /\ pt[r].pc = "start"
    /\ LET q == [pt[r] EXCEPT !.incident = incident] IN
       pt' = [pt EXCEPT ![r] =
                IF incident = "malformed" THEN PT_respond(q, 400)
                ELSE IF ~db_ok THEN PT_respond(q, 500)
                ELSE [q EXCEPT !.row = TRUE, !.pc = "trigger"]]
    /\ UNCHANGED <<old_vars, flow_vars, inc, vs, nt, live>>

\* trigger_postmortem, line 289, and trigger_postmortem_workflow: the chain is
\* composed and put on the queue, or the queue raises (500).
PtTriggerWorkflow(r, queue_ok) ==
    /\ pt[r].pc = "trigger"
    /\ pt' = [pt EXCEPT ![r] =
                IF queue_ok THEN [@ EXCEPT !.chain = "queued", !.pc = "update"]
                ELSE PT_respond(@, 500)]
    /\ UNCHANGED <<old_vars, flow_vars, inc, vs, nt, live>>

\* trigger_postmortem, lines 291-327: the chain id is stored, the snapshot is
\* written and the workflow is returned (202), or the state store raises (500).
PtAccept(r, db_ok) ==
    /\ pt[r].pc = "update"
    /\ pt' = [pt EXCEPT ![r] = PT_respond(@, IF db_ok THEN 202 ELSE 500)]
    /\ UNCHANGED <<old_vars, flow_vars, inc, vs, nt, live>>

\* A worker runs generate_postmortem_sections, the first task of the chain: it
\* raises ValueError unless the incident exists and is resolved (lines 60-66).
PtWorker(r) ==
    /\ pt[r].chain = "queued"
    /\ pt' = [pt EXCEPT ![r].chain = IF pt[r].incident = "resolved"
                                     THEN "generated" ELSE "failed"]
    /\ UNCHANGED <<old_vars, flow_vars, inc, vs, nt, live>>

(***************************************************************************)
(* The GitHub CircuitBreaker over an unbounded run of calls. The breaker   *)
(* reads the clock only as time.time() - last_failure_time, so the clock   *)
(* is kept as the seconds since the last failure, up to recovery_timeout.  *)
(***************************************************************************)
\* The breaker b with the origin of the clock moved to its last failure.
LIVE_shift(b) ==
    IF b.last_failure_time = None THEN b ELSE [b EXCEPT !.last_failure_time = 0]

\* A new breaker; the wrapped operation may still fail.
LIVE_idle ==
    [b |-> GH_init,
     since |-> 0,               \* seconds since the last failure, at most recovery_timeout
     healthy |-> FALSE,         \* every operation invoked from now on succeeds
     state_then |-> "none"]     \* the state of the breaker when that began

LiveIdle == live = LIVE_idle

\* Time passes.
LiveTick ==
    /\ live.since < gh_recovery_timeout
    /\ live' = [live EXCEPT !.since = Min(@ + LiveTickStep, gh_recovery_timeout)]
    /\ UNCHANGED <<old_vars, flow_vars, inc, vs, nt, pt>>

\* From now on every invoked operation succeeds.
LiveRecover ==
    /\ ~live.healthy
    /\ live' = [live EXCEPT !.healthy = TRUE, !.state_then = live.b.state]
    /\ UNCHANGED <<old_vars, flow_vars, inc, vs, nt, pt>>

\* CircuitBreaker.call(func); func succeeds iff ok.
LiveCall(ok) ==
    /\ live.healthy => ok
    /\ ~ok => live.b.failure_count < MaxLiveFailures
    /\ LET r == GH_call(live.b, live.since, ok) IN
       live' = [live EXCEPT !.b = LIVE_shift(r.breaker),
                            !.since = IF r.outcome = "failure" THEN 0 ELSE @]
    /\ UNCHANGED <<old_vars, flow_vars, inc, vs, nt, pt>>

\* Some call is made.
LiveCallAny == \E ok \in BOOLEAN : LiveCall(ok)


\* Nothing of the components above has run.
AuxIdle == IncIdle /\ VsIdle /\ NtIdle /\ PtIdle /\ LiveIdle

\* No run of the retry helper is under way (a run that has returned).
RetryIdle ==
    rt = [RT_start(0, 1, 1, FALSE, FALSE) EXCEPT !.pc = "returned"]

BreakersInit ==
    /\ now = 0
    /\ gh = GH_init
    /\ gh_obs = ObsInit(GH_init)
    /\ cl = CL_init
    /\ cl_obs = ObsInit(CL_init)

Init ==
    /\ BreakersInit
    /\ RetryIdle
    /\ KbInit
    /\ ServiceInit
    /\ TaskIdle
    /\ FlowIdle
    /\ AuxIdle

InitRetry ==
    /\ BreakersInit
    /\ RetryInit
    /\ KbInit
    /\ ServiceInit
    /\ TaskIdle
    /\ FlowIdle
    /\ AuxIdle

InitTask ==
    /\ BreakersInit
    /\ RetryIdle
    /\ KbInit
    /\ ServiceInit
    /\ task \in {TASK_submitted(k) : k \in TaskKinds}
    /\ FlowIdle
    /\ AuxIdle

\* The clock advances.
Tick ==
    /\ now + TickStep <= MaxTime
    /\ now' = now + TickStep
    /\ UNCHANGED <<breaker_vars, rt, kb_vars, svc_vars, task, flow_vars, aux_vars>>

\* Some caller makes a call through the GitHub breaker; func succeeds iff ok.
GitHubCall(ok) ==
    /\ gh_obs.calls < MaxCalls
    /\ LET r == GH_call(gh, now, ok) IN
       /\ gh' = r.breaker
       /\ gh_obs' = Observe(gh_obs, gh, now, r, CircuitState.HALF_OPEN)
    /\ UNCHANGED <<now, cl, cl_obs, rt, kb_vars, svc_vars, task, flow_vars, aux_vars>>

NextGitHub ==
    \/ \E ok \in BOOLEAN : GitHubCall(ok)
    \/ Tick

SpecGitHub == Init /\ [][NextGitHub]_vars

\* C1: GitHub breaker: any failed call made while the breaker is HALF_OPEN
\* returns it to OPEN, also after one or more successful probes.
C1_HalfOpenFailureReopens ==
    (gh_obs.outcome = "failure" /\ gh_obs.at = CircuitState.HALF_OPEN)
        => gh.state = CircuitState.OPEN

\* C2: GitHub breaker: while CLOSED the failure count is the number of failed calls
\* since the last successful one and is below failure_threshold; a successful call
\* while CLOSED leaves the breaker CLOSED with failure count 0; a failed call while
\* CLOSED opens the breaker exactly when it is the failure_threshold-th consecutive
\* failure.
C2_OpensOnConsecutiveFailures ==
    /\ gh.state = CircuitState.CLOSED =>
          /\ gh.failure_count = gh_obs.consec_failures
          /\ gh_obs.consec_failures < gh_failure_threshold
    /\ (gh_obs.pre = CircuitState.CLOSED /\ gh_obs.outcome = "success") =>
          /\ gh.state = CircuitState.CLOSED
          /\ gh.failure_count = 0
    /\ (gh_obs.pre = CircuitState.CLOSED /\ gh_obs.outcome = "failure") =>
          (gh.state = CircuitState.OPEN <=> gh_obs.consec_failures = gh_failure_threshold)
    /\ (gh_obs.pre = CircuitState.CLOSED /\ gh_obs.outcome = "failure"
            /\ gh_obs.consec_failures < gh_failure_threshold) =>
          gh.state = CircuitState.CLOSED

\* C2's case: the breaker opened from CLOSED on the fifth consecutive failure, after
\* earlier failures that a success had reset.
C2_Witness ==
    /\ gh_obs.pre = CircuitState.CLOSED
    /\ gh.state = CircuitState.OPEN
    /\ gh_obs.successes > 0
    /\ gh_obs.failures > gh_failure_threshold
    /\ gh_obs.consec_failures = gh_failure_threshold

\* Some caller makes a call through the Claude breaker; func succeeds iff ok.
ClaudeCall(ok) ==
    /\ cl_obs.calls < MaxCalls
    /\ LET r == CL_call(cl, now, ok) IN
       /\ cl' = r.breaker
       /\ cl_obs' = Observe(cl_obs, cl, now, r, "HALF_OPEN")
    /\ UNCHANGED <<now, gh, gh_obs, rt, kb_vars, svc_vars, task, flow_vars, aux_vars>>

NextClaude ==
    \/ \E ok \in BOOLEAN : ClaudeCall(ok)
    \/ Tick

SpecClaude == Init /\ [][NextClaude]_vars

\* C3: Claude breaker: a successful call while CLOSED resets the failure count,
\* and the breaker opens from CLOSED only on failure_threshold consecutive
\* failures.
C3_ClaudeOpensOnConsecutiveFailures ==
    /\ (cl_obs.pre = "CLOSED" /\ cl_obs.outcome = "success") => cl.failures = 0
    /\ (cl_obs.pre = "CLOSED" /\ cl.state = "OPEN") =>
          cl_obs.consec_failures >= cl_failure_threshold

\* C4, GitHub breaker: a call made while OPEN less than recovery_timeout after the
\* last failure is rejected without invoking func and leaves the breaker as it
\* was; a call made while OPEN once recovery_timeout has elapsed invokes func in
\* HALF_OPEN.
C4_GitHubOpenGate ==
    /\ (gh_obs.pre = CircuitState.OPEN /\ gh_obs.elapsed < gh_recovery_timeout) =>
          (gh_obs.outcome = "rejected" /\ gh = gh_obs.before)
    /\ (gh_obs.pre = CircuitState.OPEN /\ gh_obs.elapsed >= gh_recovery_timeout) =>
          (gh_obs.outcome # "rejected" /\ gh_obs.at = CircuitState.HALF_OPEN)
    /\ gh_obs.outcome = "rejected" => gh = gh_obs.before

\* C4, Claude breaker: the same statement, with timeout as the recovery timeout.
C4_ClaudeOpenGate ==
    /\ (cl_obs.pre = "OPEN" /\ cl_obs.elapsed < cl_timeout) =>
          (cl_obs.outcome = "rejected" /\ cl = cl_obs.before)
    /\ (cl_obs.pre = "OPEN" /\ cl_obs.elapsed >= cl_timeout) =>
          (cl_obs.outcome # "rejected" /\ cl_obs.at = "HALF_OPEN")
    /\ cl_obs.outcome = "rejected" => cl = cl_obs.before

\* C5, GitHub breaker: a call made in HALF_OPEN closes the breaker only as the
\* success_threshold-th consecutive successful call made in HALF_OPEN.
C5_GitHubClosesAfterThreshold ==
    (gh_obs.at = CircuitState.HALF_OPEN /\ gh.state = CircuitState.CLOSED) =>
        (gh_obs.outcome = "success" /\ gh_obs.probe_successes >= gh_success_threshold)

\* C5, Claude breaker: the same statement (success_threshold = 2).
C5_ClaudeClosesAfterThreshold ==
    (cl_obs.at = "HALF_OPEN" /\ cl.state = "CLOSED") =>
        (cl_obs.outcome = "success" /\ cl_obs.probe_successes >= gh_success_threshold)

NextRetry ==
    \/ \E outcome \in {"ok", "retry", "other"}, d \in 0 .. 3 * MaxMaxDelay :
          RetryAttempt(outcome, d)
    \/ RetrySleep

SpecRetry == InitRetry /\ [][NextRetry]_vars

\* C6: exponential_backoff_with_jitter invokes func at most max_retries + 1 times;
\* when it returns, the value is that of the only successful invocation, which is
\* the last one made; when it raises, no invocation succeeded and the exception is
\* that of the last invocation.
C6_AtMostMaxRetriesPlusOneCalls ==
    /\ rt.calls <= rt.max_retries + 1
    /\ rt.successes <= 1
    /\ rt.pc = "returned" => (rt.successes = 1 /\ rt.result = rt.calls)
    /\ rt.pc = "raised" => (rt.successes = 0 /\ rt.raised = rt.calls)
    /\ rt.pc \in {"call", "sleep"} => (rt.successes = 0 /\ rt.calls = rt.retry_count)

\* C6's case: every one of max_retries + 1 > 1 attempts failed and the last
\* exception was raised.
C6_Witness ==
    /\ rt.pc = "raised"
    /\ rt.max_retries >= 2
    /\ rt.calls = rt.max_retries + 1
    /\ rt.raised = rt.calls

RECURSIVE Doubled(_, _)
\* x doubled n times
Doubled(x, n) == IF n <= 0 THEN x ELSE Doubled(x + x, n - 1)

\* C7: before retry number k the delay is d = min(base_delay * 2^(k-1), max_delay):
\* exactly d without jitter, within [0.5 * d, 1.5 * d] with jitter (rt.delay is in
\* half seconds).
C7_BackoffDelay ==
    rt.pc = "sleep" =>
        LET k == rt.retry_count
            e == Doubled(rt.base_delay, k - 1)
            d == IF e <= rt.max_delay THEN e ELSE rt.max_delay
        IN /\ k >= 1
           /\ ~rt.jitter => rt.delay = 2 * d
           /\ rt.jitter => (d <= rt.delay /\ rt.delay <= 3 * d)

\* C7's case: the third retry, where the cap max_delay applies, with the jitter
\* at the upper end of its interval.
C7_Witness ==
    /\ rt.pc = "sleep"
    /\ rt.jitter
    /\ rt.retry_count = 3
    /\ rt.base_delay * 4 > rt.max_delay
    /\ rt.delay = 3 * rt.max_delay

\* C8: the retry helper never blocks in the process between attempts: it spends no
\* time in time.sleep.
C8_NeverSleepsInProcess ==
    rt.pc # "sleep" /\ rt.slept = 0

NextKbSync ==
    \/ \E r \in Req : KbAcquire(r)
    \/ \E r \in Req, db_ok \in BOOLEAN : KbCreateWorkflow(r, db_ok)
    \/ \E r \in Req, dir_exists \in BOOLEAN, queue_ok \in BOOLEAN :
          KbTriggerWorkflow(r, dir_exists, queue_ok)
    \/ \E r \in Req, db_ok \in BOOLEAN : KbUpdateData(r, db_ok)
    \/ \E r \in Req, cache_ok \in BOOLEAN : KbAccept(r, cache_ok)
    \/ \E w \in Req, ok \in BOOLEAN : KbWorker(w, ok)
    \/ KbTick

SpecKbSync == Init /\ [][NextKbSync]_vars

C10_LockReleasedOnTerminal ==
    \A w \in Req :
        (kb_req[w].response = 202 /\ kb_chain[w] \in {"finished", "failed"})
        => ~(LockHeld(kb_lock, now) /\ kb_lock.token = w)

\* C11: a KB sync request rejected with a 4xx response (409 lock held, 400
\* runbooks directory absent) has created no workflow record and written no
\* snapshot.
C11_RejectedWritesNothing ==
    \A r \in Req :
        kb_req[r].response \in {400, 409} =>
            (~kb_db[r].exists /\ kb_cache[r] = "absent")

NextStore ==
    \/ CreateWorkflow
    \/ \E status \in WorkflowStatus, error_message \in BOOLEAN :
          UpdateWorkflowStatus(status, error_message)
    \/ CreateWorkflowStep
    \/ \E cache_ok \in BOOLEAN : GetWorkflowStatus(cache_ok)
    \/ SnapExpire

SpecStore == Init /\ [][NextStore]_vars

NextData ==
    \/ CreateWorkflow
    \/ \E status \in WorkflowStatus, error_message \in BOOLEAN :
          UpdateWorkflowStatus(status, error_message)
    \/ \E c \in Client : DataRead(c)
    \/ \E c \in Client : DataWrite(c)

SpecData == Init /\ [][NextData]_vars

NextTask ==
    \/ TaskExecute
    \/ TaskReturn
    \/ \E retryable \in BOOLEAN : TaskRaise(retryable)
    \/ TaskWorkerLost
    \/ CreateWorkflow
    \/ CreateWorkflowStep
    \/ \E status \in WorkflowStepStatus : UpdateWorkflowStepStatus(status)

SpecTask == InitTask /\ [][NextTask]_vars

\* The statuses the specification calls terminal.
Workflow_terminal == {"COMPLETED", "FAILED", "CANCELLED"}
Step_terminal == {"completed", "failed", "skipped"}

\* C12: update_workflow_status never changes the status of a workflow that is
\* COMPLETED, FAILED or CANCELLED: the status a workflow had before its last change
\* of status is never a terminal one.
C12_TerminalStatusKept ==
    wf_obs.pre \notin Workflow_terminal

\* C13: a workflow whose status is COMPLETED, FAILED or CANCELLED has completed_at
\* set.
C13_TerminalHasCompletedAt ==
    wf.status \in Workflow_terminal => wf.completed_at # None

\* C14: update_workflow_step_status never moves a step backwards: the status a step
\* had before its last change of status is not completed, failed or skipped, and a
\* step that was running is not pending.
C14_StepNeverMovesBack ==
    /\ step_obs.pre \notin Step_terminal
    /\ ~(step_obs.pre = "running" /\ step.status = "pending")

\* C15: after k retried failures followed by a success of a step's task, the step
\* record shows retry_count = k.
C15_RetryCountCountsRetries ==
    (task.state = "succeeded" /\ step.exists) => step.retry_count = task.retries

\* C16 (as claimed): a task is executed at most max_retries + 1 times for one
\* submitted job, and a task declared with max_retries = 0 that failed ran once.
C16_AtMostMaxRetriesPlusOneExecutions ==
    /\ task.executions <= task.kind.max_retries + 1
    /\ (task.kind.max_retries = 0 /\ task.state = "failed") => task.executions = 1

\* C16 (amended): a job is retried at most max_retries times, so it is executed at
\* most max_retries + 1 times plus once for each redelivery after a worker loss; a
\* task declared with max_retries = 0 is never retried, and one that failed without
\* a worker being lost ran exactly once.
C16_ExecutionsBoundedByRetriesAndRedeliveries ==
    /\ task.retries <= task.kind.max_retries
    /\ task.executions <= task.retries + 1 + task.redeliveries
    /\ (task.kind.max_retries = 0 /\ task.state = "failed" /\ task.redeliveries = 0)
          => task.executions = 1

\* C16's case: a task with max_retries = 3 failed after using up its retries, four
\* executions without a worker loss.
C16_Witness ==
    /\ task.state = "failed"
    /\ task.kind.max_retries = task_max_retries
    /\ task.retries = task_max_retries
    /\ task.executions = task_max_retries + 1
    /\ task.redeliveries = 0

\* The KB sync model has come to rest: every request is answered and no chain has
\* a task left to run.
KB_quiescent ==
    /\ \A r \in Req : kb_req[r].pc = "done"
    /\ \A r \in Req : kb_chain[r] \notin {"queued", "scanned"}

\* C17: an accepted workflow whose tasks all finished successfully has status
\* COMPLETED in the state store once nothing is left to run.
C17_FinishedWorkflowIsCompleted ==
    \A r \in Req :
        (KB_quiescent /\ kb_req[r].response = 202 /\ kb_chain[r] = "finished")
        => kb_db[r].status = "COMPLETED"

\* C18: the cached snapshot of a workflow, when there is one, shows the status of
\* the state store or the one it had before its last change: it is never more
\* than one status change behind.
C18_SnapshotAtMostOneChangeBehind ==
    snap.present => snap.status \in {wf.status, wf_obs.pre}

\* C19 (as claimed): a GET that found no snapshot returns, for a workflow of the
\* state store, 200 with the store's status and the step list and leaves a snapshot
\* with that status in the cache; for an unknown id it returns 404 and writes
\* nothing to the cache.
C19_MissReadsStoreAndRefreshes ==
    (get.response.code # 0 /\ get.miss) =>
        IF get.found
        THEN /\ get.response = GET_response(200, get.status, GET_steps(get.step))
             /\ get.cache = [present |-> TRUE, status |-> get.status]
        ELSE /\ get.response.code = 404
             /\ get.cache = WC_absent

\* C19 (amended): as claimed, but the snapshot is there afterwards only if the
\* cache accepted the write; when the cache fails, the GET still returns 200 with
\* the store's status and the cache stays empty.
C19_MissReadsStoreAndRefreshesIfCacheUp ==
    (get.response.code # 0 /\ get.miss) =>
        IF get.found
        THEN /\ get.response = GET_response(200, get.status, GET_steps(get.step))
             /\ get.cache = IF get.cache_ok
                            THEN [present |-> TRUE, status |-> get.status]
                            ELSE WC_absent
        ELSE /\ get.response.code = 404
             /\ get.cache = WC_absent

\* C19's case: a GET missed the cache, found a workflow that had left PENDING and
\* has a step, and left its snapshot behind.
C19_Witness ==
    /\ get.miss
    /\ get.response.code = 200
    /\ get.status = "RUNNING"
    /\ get.step.exists
    /\ get.cache.present

\* C20: when the callers of update_workflow_data on one workflow have all
\* committed, workflow_data holds the keys of every patch.
C20_NoLostUpdate ==
    (\A c \in Client : cli[c].pc = "done")
        => \A c \in Client : DataKey[c] \in wf.workflow_data

NextCompose ==
    \/ \E w \in Wf, log_file_path \in BOOLEAN : ComposeIncident(w, log_file_path)
    \/ \E w \in Wf : ComposePostmortem(w)
    \/ \E w \in Wf : ComposeKbSync(w)
    \/ \E w \in Wf, n \in TaskName, a \in 0 .. 4, i \in BOOLEAN, ok \in BOOLEAN :
          RunTask(w, [task |-> n, args |-> a, immutable |-> i], ok)

SpecCompose == Init /\ [][NextCompose]_vars

\* The task names of a chain without groups, in order.
ChainTasks(c) == [i \in 1 .. Len(c) |-> (CHOOSE s \in c[i] : TRUE).task]

\* C21: the incident chain is create_incident_record, analyze_logs_async,
\* search_related_runbooks, create_github_issue, send_notification in that order
\* when a log file path is given (5 tasks), and the same without analyze_logs_async
\* (4 tasks) when it is not.
C21_IncidentChainHasAllHandlers ==
    \A w \in Wf :
        run[w].kind = "incident" =>
            /\ \A i \in 1 .. Len(run[w].chain) : Cardinality(run[w].chain[i]) = 1
            /\ ChainTasks(run[w].chain) \in
                  {<<"create_incident_record", "analyze_logs_async",
                     "search_related_runbooks", "create_github_issue",
                     "send_notification">>,
                   <<"create_incident_record", "search_related_runbooks",
                     "create_github_issue", "send_notification">>}

\* The number of times a task's body started in a run.
TimesStarted(q, name) == Cardinality({i \in 1 .. Len(q.started) : q.started[i] = name})

\* C22: a postmortem run in which no task body raised has, once nothing is left to
\* run, started notify_stakeholders exactly once, after create_github_issue and
\* embed_in_chromadb.
C22_NotifyRunsOnceAfterGroup ==
    \A w \in Wf :
        (run[w].kind = "postmortem" /\ run[w].state \in {"finished", "failed"}
            /\ ~run[w].raised)
        => /\ TimesStarted(run[w], "notify_stakeholders") = 1
           /\ run[w].started[Len(run[w].started)] = "notify_stakeholders"
           /\ TimesStarted(run[w], "create_github_issue") = 1
           /\ TimesStarted(run[w], "embed_in_chromadb") = 1

\* C23: in every composed workflow each task is called with a number of positional
\* arguments its function accepts.
C23_ArgumentsFitSignatures ==
    \A w \in Wf : ~run[w].type_error


NextKbProcess ==
    \/ KsCall
    \/ \E c \in ChangeSet : KsDetected(c)
    \/ KsDetectFailed
    \/ \E p \in Path, ok \in BOOLEAN : KsEmbed(p, ok)
    \/ KsPrepare
    \/ \E ok \in BOOLEAN : KsUpdate(ok)
    \/ KsUpdateAwaited
    \/ \E ok \in BOOLEAN : KsInvalidate(ok)

SpecKbProcess == Init /\ [][NextKbProcess]_vars

NextSync ==
    \/ \E use_database \in BOOLEAN : SyncServiceInit(use_database)
    \/ SyncCreateWorkflow
    \/ \E current_state \in FileState : SyncDetectChanges(current_state)

SpecSync == Init /\ [][NextSync]_vars

\* C27: a run of detect_changes over the file set of the run before it reports
\* total_changes = 0 and leaves the stored previous state as it was, with the
\* state file and with the database-backed state alike.
C27_SecondRunSeesNoChange ==
    sync.repeated => (sync.result.total_changes = 0 /\ sync.kept)

\* C28: detect_changes sorts the current files against the stored previous state
\* P into added, modified, unchanged and deleted, pairwise disjoint, with
\* total_changes = |added| + |modified| + |deleted|; the state stored afterwards
\* is the current one; with no previous state every file is added.
C28_ClassifiesAndStoresCurrent ==
    sync.calls > 0 =>
        LET P == sync.previous
            cur == sync.current
            r == sync.result IN
        /\ r.added = SYNC_paths(cur) \ SYNC_paths(P)
        /\ r.modified = {p \in SYNC_paths(cur) \cap SYNC_paths(P) : P[p] # cur[p]}
        /\ r.unchanged = {p \in SYNC_paths(cur) \cap SYNC_paths(P) : P[p] = cur[p]}
        /\ r.deleted = SYNC_paths(P) \ SYNC_paths(cur)
        /\ r.added \cap r.modified = {} /\ r.added \cap r.unchanged = {}
        /\ r.added \cap r.deleted = {} /\ r.modified \cap r.unchanged = {}
        /\ r.modified \cap r.deleted = {} /\ r.unchanged \cap r.deleted = {}
        /\ r.total_changes = Cardinality(r.added) + Cardinality(r.modified)
                               + Cardinality(r.deleted)
        /\ SYNC_load_previous_state(sync) = cur
        /\ (P = SYNC_empty => r.added = SYNC_paths(cur))


(***************************************************************************)
(* The job of generate_postmortem_sections and the other callers of the    *)
(* shared Claude client.                                                   *)
(***************************************************************************)
\* Another task of the process calls the LLM through the same client.
PmOtherCaller(ok) ==
    /\ pm.pc = "idle"
    /\ cl_obs.calls < MaxOtherCalls
    /\ ClaudeCall(ok)

\* The job is put on the queue; the LLM is going to fail k calls, then answer.
PmSubmit(k) ==
    /\ pm.pc = "idle"
    /\ pm' = [PM_idle EXCEPT !.pc = "queued", !.k = k, !.left = k, !.due = now]
    /\ UNCHANGED <<old_vars, run, ks, sync, gi, aux_vars>>

\* The clock reaches the time the retry is scheduled for.
PmWait ==
    /\ pm.pc = "queued"
    /\ now < pm.due
    /\ now' = pm.due
    /\ UNCHANGED <<breaker_vars, rt, kb_vars, svc_vars, task, flow_vars, aux_vars>>

\* A worker runs the task body: claude_client.generate_postmortem(context) goes
\* through circuit_breaker.call; any exception leads to self.retry, which
\* schedules the next run or, with the retries used up, fails the task.
PmRun ==
    /\ pm.pc = "queued"
    /\ now >= pm.due
    /\ LET r == CL_call(cl, now, pm.left = 0) IN
       /\ cl' = r.breaker
       /\ cl_obs' = Observe(cl_obs, cl, now, r, "HALF_OPEN")
       /\ pm' = IF r.outcome = "success"
                THEN [pm EXCEPT !.pc = "done", !.invocations = @ + 1]
                ELSE LET q == [pm EXCEPT
                                 !.invocations = @ + 1,
                                 !.left = IF r.invoked THEN @ - 1 ELSE @,
                                 !.rejected = IF r.invoked THEN @ ELSE @ + 1] IN
                     IF pm.retries < pm_max_retries
                     THEN [q EXCEPT !.retries = @ + 1,
                                    !.due = now + PM_countdown(pm.retries),
                                    !.delays = Append(@, PM_countdown(pm.retries))]
                     ELSE [q EXCEPT !.pc = "failed"]
    /\ UNCHANGED <<now, gh, gh_obs, rt, kb_vars, svc_vars, task, run, ks, sync, gi, aux_vars>>

NextPostmortemTask ==
    \/ \E ok \in BOOLEAN : PmOtherCaller(ok)
    \/ \E k \in 0 .. pm_max_retries : PmSubmit(k)
    \/ PmWait
    \/ PmRun
    \/ Tick

SpecPostmortemTask == Init /\ [][NextPostmortemTask]_vars

\* C29: when the LLM fails k <= 3 calls and then answers, the job of
\* generate_postmortem_sections never fails, is done after exactly k + 1 runs,
\* and its n-th retry is scheduled 2^(n-1) seconds after the n-th failure,
\* whatever state the shared Claude client and its breaker are in.
C29_DoneAfterKPlusOneRuns ==
    /\ pm.pc # "failed"
    /\ pm.invocations <= pm.k + 1
    /\ pm.pc = "done" => pm.invocations = pm.k + 1
    /\ \A n \in 1 .. Len(pm.delays) : pm.delays[n] = 2 ^ (n - 1)


NextGitHubIssue ==
    \/ \E w \in Wf, enabled \in BOOLEAN, repo \in BOOLEAN : GiSubmit(w, enabled, repo)
    \/ \E w \in Wf, api_ok \in BOOLEAN : GiRun(w, api_ok)

SpecGitHubIssue == Init /\ [][NextGitHubIssue]_vars

\* C30: with the GitHub integration disabled a create_github_issue job is done on
\* its first run with a skipped result, without a retry and without a request to
\* the GitHub API.
C30_DisabledIsSkippedSuccess ==
    \A w \in Wf :
        (~gi[w].enabled /\ gi[w].invocations > 0) =>
            /\ gi[w].pc = "done"
            /\ gi[w].result = "skipped"
            /\ gi[w].invocations = 1
            /\ gi[w].retries = 0
            /\ gi[w].api_calls = 0

\* C31: a permanent error in a handler (here: no repository configured for the
\* GitHub client) makes the task fail on its first attempt; the job is never put
\* back on the queue for a retry.
C31_PermanentErrorFailsAtOnce ==
    \A w \in Wf :
        (gi[w].enabled /\ ~gi[w].repo /\ gi[w].invocations > 0) =>
            /\ gi[w].pc = "failed"
            /\ gi[w].invocations = 1
            /\ gi[w].retries = 0

C40_BreakerInvariants ==
    /\ gh.state = CircuitState.CLOSED => gh.failure_count < gh_failure_threshold
    /\ gh.success_count < gh_success_threshold
    /\ gh.success_count > 0 => gh.state = CircuitState.HALF_OPEN
    /\ gh.state # CircuitState.CLOSED => gh.last_failure_time # None

\* C40's case: a half-open breaker after one successful probe.
C40_Witness ==
    /\ gh.state = CircuitState.HALF_OPEN
    /\ gh.success_count > 0
    /\ gh_obs.failures >= gh_failure_threshold


\* C37: no run of failed create_github_issue executions makes a later execution be
\* rejected by an OPEN breaker: every execution builds a new client whose breaker
\* starts CLOSED, so with the integration enabled and a repository configured the
\* GitHub API is called on every execution.
C37_EveryExecutionCallsTheApi ==
    \A w \in Wf :
        /\ gi[w].rejected = 0
        /\ (gi[w].enabled /\ gi[w].repo) => gi[w].api_calls = gi[w].invocations

\* C37's case: failure_threshold or more executions have failed in a row, each
\* having called the API.
C37_Witness ==
    \E S \in SUBSET Wf :
        /\ \A w \in S : gi[w].enabled /\ gi[w].repo /\ gi[w].result = "none"
        /\ \E w \in S : gi[w].pc = "failed"
        /\ Cardinality(S) * (gi_max_retries + 1) > gh_failure_threshold
        /\ \A w \in S : gi[w].api_calls = gi_max_retries + 1


NextIncident ==
    \/ \E w \in Wf : IncSubmit(w)
    \/ \E w \in Wf : IncDeliver(w)
    \/ \E w \in Wf, db_ok \in BOOLEAN : IncCommit(w, db_ok)
    \/ \E w \in Wf : IncReturn(w)
    \/ \E w \in Wf : IncWorkerLost(w)

SpecIncident == Init /\ [][NextIncident]_vars

\* C32: a create_incident_record job that is redelivered after a worker loss
\* leaves what a single delivery leaves: once it is done exactly one incident row
\* exists for the job.
C32_RedeliveryLeavesOneRow ==
    \A w \in Wf :
        /\ inc[w].rows <= 1
        /\ inc[w].pc = "done" => inc[w].rows = 1


NextEmbed == \E doc \in DocId, text \in Text : VsEmbedDocument(doc, text)

SpecEmbed == Init /\ [][NextEmbed]_vars

\* C33: embedding a document id again with the text it was last embedded with
\* leaves the content of the vector store as it was (no further, no duplicated
\* chunk) and reports the operation "updated".
C33_ReembeddingKeepsContent ==
    vs.repeated =>
        /\ vs.operation = "updated"
        /\ VS_content(vs.entries, vs.doc) = vs.before


NextNotify ==
    \E channels \in ChannelList :
        \E delivered \in SUBSET {i \in 1 .. Len(channels) : channels[i] = "webhook"} :
            NtSend(channels, delivered)

SpecNotify == Init /\ [][NextNotify]_vars

\* C34: send reports success iff every requested channel was delivered, partial
\* iff some but not all were, and raises NotificationError whenever none was: an
\* empty sent list is never reported as success, for any channel list, the empty
\* one included.
C34_StatusMatchesDeliveries ==
    nt.calls > 0 =>
        LET n == Len(nt.channels)
            sent == Cardinality(nt.out.sent_to) IN
        /\ (nt.out.status = "success" /\ nt.out.raised = "none") <=> (sent = n /\ sent > 0)
        /\ (nt.out.status = "partial" /\ nt.out.raised = "none") <=> (0 < sent /\ sent < n)
        /\ nt.out.raised = "NotificationError" <=> sent = 0


NextPostmortemTrigger ==
    \/ \E r \in Req, incident \in IncidentState, db_ok \in BOOLEAN :
          PtCreateWorkflow(r, incident, db_ok)
    \/ \E r \in Req, queue_ok \in BOOLEAN : PtTriggerWorkflow(r, queue_ok)
    \/ \E r \in Req, db_ok \in BOOLEAN : PtAccept(r, db_ok)
    \/ \E r \in Req : PtWorker(r)

SpecPostmortemTrigger == Init /\ [][NextPostmortemTrigger]_vars

\* C35: POST /postmortem/{incident_id} for an incident that is not resolved is
\* answered 400 at once (500 if the state store fails) and starts no workflow: no
\* workflow record is created and no job is put on the queue.
C35_UnresolvedIsRejected ==
    \A r \in Req :
        pt[r].incident \in {"absent", "open"} =>
            /\ ~pt[r].row
            /\ pt[r].chain = "none"
            /\ pt[r].pc = "done" => pt[r].response \in {400, 500}


NextLive ==
    \/ LiveTick
    \/ LiveRecover
    \/ LiveCallAny

\* Calls keep being made and time keeps advancing.
SpecLive == Init /\ [][NextLive]_vars /\ WF_vars(LiveTick) /\ WF_vars(LiveCallAny)

\* C39: once every invoked operation succeeds, with calls being made and time
\* advancing, the GitHub breaker becomes CLOSED and stays CLOSED.
C39_EventuallyClosedForGood ==
    live.healthy ~> [](live.b.state = CircuitState.CLOSED)

\* C39's case: the breaker was OPEN when the operations began to succeed and is
\* CLOSED now.
C39_Witness ==
    /\ live.healthy
    /\ live.state_then = CircuitState.OPEN
    /\ live.b.state = CircuitState.CLOSED


====
